---- MODULE Spec2Model ----
(***************************************************************************)
(* Verification model of the OMR core of GemWinnnn/OmrScanner:             *)
(*   backend/app/core/template_parser.py   (ParsedTemplate, FieldBlock)    *)
(*   backend/app/core/bubble_detector.py   (thresholds, detect_bubbles)    *)
(*   backend/app/core/evaluator.py         (evaluate_response)             *)
(*   backend/app/core/omr_engine.py        (process_omr_image)             *)
(*   backend/app/core/image_processing.py  (decoding, marker passes)       *)
(*                                                                         *)
(* Representation of Python values                                         *)
(*   str            sequence of one-character strings, "" is << >>         *)
(*   dict           sequence of [key, value] entries in insertion order,   *)
(*                  or a function when the order is never observed         *)
(*   None / x       << >> / << x >>  (None, Some)                          *)
(*   list index     1-based here, 0-based in the source                    *)
(*   mean intensity integer grey level 0..255                              *)
(*   threshold      twice its value (half grey levels), so that jump / 2   *)
(*                  and (qmin + qmax) / 2 are exact                        *)
(*   fill ratio     thousandths (0.06 is 60)                               *)
(*   marking weight quarters of a point (1.0 is 4, -0.25 is -1)            *)
(*   percentage     hundredths of a percent (25.0 is 2500)                 *)
(*   coordinates    bubble x, y are integers; gaps are tenths of a pixel   *)
(*   match score    hundredths (0.3 is 30); sizes and distances on the     *)
(*                  page are percent of the image width or height          *)
(***************************************************************************)
EXTENDS Integers, Sequences, FiniteSets, TLC

VARIABLES
    pc,               \* position of process_omr_image in its pipeline
    image_data,       \* argument: "valid" or "corrupt" encoded image
    template_config,  \* argument: None or Some(config); the dict is shared with the caller
    answer_key,       \* argument: None or Some(dict question -> answer)
    marking_scheme,   \* argument: None or Some(MarkingScheme)
    template,         \* ParsedTemplate built in step 2
    detection,        \* the tuple returned by detect_bubbles in step 5
    result,           \* None, or Some(ScanResult) once returned
    evaluation,       \* score, total, percentage and bubble_details after step 6
    error,            \* None, or Some(exception) once raised
    call              \* a direct call of one core function: [fn, args, ret]

vars == <<pc, image_data, template_config, answer_key, marking_scheme,
          template, detection, evaluation, result, error, call>>

\* ------------------------------------------------------------------ values

None == << >>
Some(x) == << x >>
IsNone(o) == o = << >>
The(o) == o[1]

\* dict.get(k, d) on a dict modelled as a record of its present keys
Get(d, k, default) == IF k \in DOMAIN d THEN d[k] ELSE default

\* {**a, **b}
Overlay(a, b) ==
    [k \in (DOMAIN a) \cup (DOMAIN b) |-> IF k \in DOMAIN b THEN b[k] ELSE a[k]]

Range(s) == {s[i] : i \in DOMAIN s}

\* ordered dict (sequence of [key, value]) helpers
Keys(d) == {d[i].key : i \in DOMAIN d}
Lookup(d, k) == d[CHOOSE i \in DOMAIN d : d[i].key = k].value

Max(a, b) == IF a >= b THEN a ELSE b
Min(a, b) == IF a <= b THEN a ELSE b
SeqMax(s) == CHOOSE x \in Range(s) : \A y \in Range(s) : y <= x
SeqMin(s) == CHOOSE x \in Range(s) : \A y \in Range(s) : x <= y

RECURSIVE SeqSum(_)
SeqSum(s) == IF s = << >> THEN 0 ELSE s[1] + SeqSum(Tail(s))

\* Python round(): round half to even, here of the rational num / den, den > 0
RoundHalfEven(num, den) ==
    LET q == num \div den
        r == num % den
    IN  IF 2 * r < den THEN q
        ELSE IF 2 * r > den THEN q + 1
        ELSE IF q % 2 = 0 THEN q ELSE q + 1

\* sorted(values)
InsertSorted(s, x) ==
    LET k == Cardinality({i \in DOMAIN s : s[i] <= x})
    IN  SubSeq(s, 1, k) \o << x >> \o SubSeq(s, k + 1, Len(s))

RECURSIVE sorted(_)
sorted(s) ==
    IF s = << >> THEN << >>
    ELSE InsertSorted(sorted(SubSeq(s, 1, Len(s) - 1)), s[Len(s)])

\* sorted(idx, key=lambda i: vals[i]) : stable, ascending
InsertByKey(s, j, vals) ==
    LET k == Cardinality({i \in DOMAIN s : vals[s[i]] <= vals[j]})
    IN  SubSeq(s, 1, k) \o << j >> \o SubSeq(s, k + 1, Len(s))

RECURSIVE sorted_by(_, _)
sorted_by(idx, vals) ==
    IF idx = << >> THEN << >>
    ELSE InsertByKey(sorted_by(SubSeq(idx, 1, Len(idx) - 1), vals), idx[Len(idx)], vals)

\* sorted(idx, key=lambda i: vals[i], reverse=True) : stable, descending
InsertByKeyDesc(s, j, vals) ==
    LET k == Cardinality({i \in DOMAIN s : vals[s[i]] >= vals[j]})
    IN  SubSeq(s, 1, k) \o << j >> \o SubSeq(s, k + 1, Len(s))

RECURSIVE sorted_by_desc(_, _)
sorted_by_desc(idx, vals) ==
    IF idx = << >> THEN << >>
    ELSE InsertByKeyDesc(sorted_by_desc(SubSeq(idx, 1, Len(idx) - 1), vals),
                         idx[Len(idx)], vals)

\* list(range(1, n + 1))
Indices(n) == [i \in 1..n |-> i]

\* the subsequence of s at the positions satisfying Keep, in order
RECURSIVE Filter(_, _)
Filter(s, keep) ==
    IF s = << >> THEN << >>
    ELSE (IF s[1] \in keep THEN << s[1] >> ELSE << >>) \o Filter(Tail(s), keep)

RECURSIVE Flatten(_)
Flatten(ss) == IF ss = << >> THEN << >> ELSE ss[1] \o Flatten(Tail(ss))

\* ------------------------------------------------- schemas.py: FIELD_TYPES

Str(c) == << c >>

FIELD_TYPES ==
    [ QTYPE_INT |->
        [ bubbleValues |-> << Str("0"), Str("1"), Str("2"), Str("3"), Str("4"),
                              Str("5"), Str("6"), Str("7"), Str("8"), Str("9") >>,
          direction |-> "vertical" ],
      QTYPE_INT_FROM_1 |->
        [ bubbleValues |-> << Str("1"), Str("2"), Str("3"), Str("4"), Str("5"),
                              Str("6"), Str("7"), Str("8"), Str("9"), Str("0") >>,
          direction |-> "vertical" ],
      QTYPE_MCQ4 |->
        [ bubbleValues |-> << Str("A"), Str("B"), Str("C"), Str("D") >>,
          direction |-> "horizontal" ],
      QTYPE_MCQ5 |->
        [ bubbleValues |-> << Str("A"), Str("B"), Str("C"), Str("D"), Str("E") >>,
          direction |-> "horizontal" ] ]

\* ------------------------------------------------------ template_parser.py

\* Bubble dataclass
Bubble(x, y, field_label, field_value) ==
    [ x |-> x, y |-> y, field_label |-> field_label, field_value |-> field_value ]

\* A Python float near a number of tenths: the record [T, e] stands for the double
\* T/10 + e/(10 * 2^56). float_round(T, e0) is the double nearest to the exact value
\* T/10 + e0/(10 * 2^56), ties to even, as IEEE 754 addition and the reading of a
\* decimal literal round (0 <= T < 10 * 2^15). The double grid around the value is
\* 2^(b-52) for the value in [2^b, 2^(b+1)); the value is A + (r + e0/2^d)/10 grid
\* steps with 10 * A + r = T * 2^(52-b) and d = b + 4.
float_round(T, e0) ==
    LET Pow2(n) == << 1, 2, 4, 8, 16, 32, 64, 128, 256, 512, 1024, 2048, 4096, 8192,
                      16384, 32768, 65536, 131072, 262144, 524288 >>[n + 1]
        \* 2^(52-b) mod 20
        PowMod(b) == CASE (52 - b) % 4 = 2 -> 4
                       [] (52 - b) % 4 = 3 -> 8
                       [] (52 - b) % 4 = 0 -> 16
                       [] (52 - b) % 4 = 1 -> 12
        nearest(d, r20, den, k, rem) ==
            [ T |-> T,
              e |-> (10 * (IF 2 * rem > den \/ (2 * rem = den /\ ((r20 \div 10) + k) % 2 = 1)
                           THEN k + 1 ELSE k)
                     - (r20 % 10)) * Pow2(d) ]
        divided(d, r20, num, den) ==
            nearest(d, r20, den, num \div den, num - (num \div den) * den)
        scaled(d, r20) == divided(d, r20, (r20 % 10) * Pow2(d) + e0, 10 * Pow2(d))
        in_binade(b) == scaled(b + 4, ((T % 20) * PowMod(b)) % 20)
        binade(b0) == in_binade(IF 16 * T = 10 * Pow2(b0 + 4) /\ e0 < 0 THEN b0 - 1 ELSE b0)
    IN  IF T = 0 THEN [ T |-> 0, e |-> 0 ]
        ELSE binade(CHOOSE b \in -4..14 :
                        16 * T >= 10 * Pow2(b + 4) /\ 16 * T < 10 * Pow2(b + 5))

\* FieldBlock._generate_bubble_grid along one axis: the coordinates round(p) of the
\* n points p = float(origin), p += gap, p += gap, ... (origin in pixels, gap in
\* tenths of a pixel); round() of a float goes to the nearest integer, ties to even.
axis_positions(origin, gap, n) ==
    LET round(p) ==
            IF \/ p.T % 10 > 5
               \/ p.T % 10 = 5 /\ p.e > 0
               \/ p.T % 10 = 5 /\ p.e = 0 /\ (p.T \div 10) % 2 = 1
            THEN (p.T \div 10) + 1
            ELSE p.T \div 10
        RECURSIVE walk(_, _, _, _)
        walk(p, g, i, acc) ==
            IF i > n THEN acc
            ELSE walk(float_round(p.T + g.T, p.e + g.e), g, i + 1, Append(acc, round(p)))
    IN  walk(float_round(10 * origin, 0), float_round(gap, 0), 1, << >>)

\* generate_bubble_grid with the two axes exchanged: the choices advance along _v
generate_bubble_grid_axes_swapped(origin, bubble_values, bubbles_gap, direction, labels_gap, field_labels) ==
    LET h == IF direction = "vertical" THEN 1 ELSE 2
        v == IF direction = "vertical" THEN 2 ELSE 1
        place(along_h, along_v) ==
            [ j \in 1..Len(field_labels) |->
                [ k \in 1..Len(bubble_values) |->
                    Bubble(IF h = 1 THEN along_h[k] ELSE along_v[j],
                           IF h = 2 THEN along_h[k] ELSE along_v[j],
                           field_labels[j], bubble_values[k]) ] ]
    IN  place(axis_positions(origin[h], bubbles_gap, Len(bubble_values)),
              axis_positions(origin[v], labels_gap, Len(field_labels)))

\* FieldBlock._generate_bubble_grid; origin in pixels, gaps in tenths of a pixel.
\* Question j (1-based) starts at origin advanced (j-1) times by labels_gap along
\* axis _v, choice k advanced (k-1) times by bubbles_gap along axis _h.
generate_bubble_grid(origin, bubble_values, bubbles_gap, direction, labels_gap, field_labels) ==
    LET h == IF direction = "vertical" THEN 2 ELSE 1
        v == IF direction = "vertical" THEN 1 ELSE 2
        place(along_h, along_v) ==
            [ j \in 1..Len(field_labels) |->
                [ k \in 1..Len(bubble_values) |->
                    Bubble(IF h = 1 THEN along_h[k] ELSE along_v[j],
                           IF h = 2 THEN along_h[k] ELSE along_v[j],
                           field_labels[j], bubble_values[k]) ] ]
    IN  place(axis_positions(origin[h], bubbles_gap, Len(bubble_values)),
              axis_positions(origin[v], labels_gap, Len(field_labels)))

\* FieldBlock._calculate_dimensions; int() truncates (all operands are >= 0 here)
calculate_dimensions(bubble_dims, bubble_values, bubbles_gap, direction, labels_gap, field_labels) ==
    LET h == IF direction = "vertical" THEN 2 ELSE 1
        v == IF direction = "vertical" THEN 1 ELSE 2
        values_dimension ==
            (bubbles_gap * (Len(bubble_values) - 1) + 10 * bubble_dims[h]) \div 10
        fields_dimension ==
            (labels_gap * (Len(field_labels) - 1) + 10 * bubble_dims[v]) \div 10
    IN  IF direction = "vertical"
        THEN << fields_dimension, values_dimension >>
        ELSE << values_dimension, fields_dimension >>

\* The keys from_config reads with config[...], in the order it reads them
REQUIRED_KEYS == << "bubbleValues", "bubblesGap", "labelsGap", "origin", "fieldLabels" >>

\* from_config in which the keys of the block configuration win over the registry
\* entry of its fieldType ({**FIELD_TYPES[...], **config})
from_config_block_wins(block_name, block_config, global_bubble_dims, global_empty_val) ==
    LET config ==
            IF "fieldType" \in DOMAIN block_config
               /\ block_config.fieldType \in DOMAIN FIELD_TYPES
            THEN Overlay(FIELD_TYPES[block_config.fieldType], block_config)
            ELSE block_config
        missing == Filter(REQUIRED_KEYS, {k \in Range(REQUIRED_KEYS) : k \notin DOMAIN config})
        direction == Get(config, "direction", "vertical")
        bubble_dims == Get(config, "bubbleDimensions", global_bubble_dims)
    IN  IF missing # << >>
        THEN [ ok |-> FALSE, error |-> [ type |-> "KeyError", key |-> missing[1] ] ]
        ELSE [ ok |-> TRUE,
               block |->
                 [ name |-> block_name,
                   origin |-> config.origin,
                   bubble_dimensions |-> bubble_dims,
                   dimensions |->
                       calculate_dimensions(bubble_dims, config.bubbleValues, config.bubblesGap,
                                            direction, config.labelsGap, config.fieldLabels),
                   traverse_bubbles |->
                       generate_bubble_grid(config.origin, config.bubbleValues, config.bubblesGap,
                                            direction, config.labelsGap, config.fieldLabels),
                   shift |-> 0,
                   empty_val |-> Get(config, "emptyValue", global_empty_val) ] ]

\* FieldBlock.from_config: [ok, block] or [ok = FALSE, error = KeyError(key)]
from_config(block_name, block_config, global_bubble_dims, global_empty_val) ==
    LET config ==
            IF "fieldType" \in DOMAIN block_config
               /\ block_config.fieldType \in DOMAIN FIELD_TYPES
            THEN Overlay(block_config, FIELD_TYPES[block_config.fieldType])
            ELSE block_config
        missing == Filter(REQUIRED_KEYS, {k \in Range(REQUIRED_KEYS) : k \notin DOMAIN config})
        direction == Get(config, "direction", "vertical")
        bubble_dims == Get(config, "bubbleDimensions", global_bubble_dims)
    IN  IF missing # << >>
        THEN [ ok |-> FALSE, error |-> [ type |-> "KeyError", key |-> missing[1] ] ]
        ELSE [ ok |-> TRUE,
               block |->
                 [ name |-> block_name,
                   origin |-> config.origin,
                   bubble_dimensions |-> bubble_dims,
                   dimensions |->
                       calculate_dimensions(bubble_dims, config.bubbleValues, config.bubblesGap,
                                            direction, config.labelsGap, config.fieldLabels),
                   traverse_bubbles |->
                       generate_bubble_grid(config.origin, config.bubbleValues, config.bubblesGap,
                                            direction, config.labelsGap, config.fieldLabels),
                   shift |-> 0,
                   empty_val |-> Get(config, "emptyValue", global_empty_val) ] ]

\* The first label of every non-empty strip, block by block (auto-fill of output_columns)
RECURSIVE first_labels(_)
first_labels(strips) ==
    IF strips = << >> THEN << >>
    ELSE (IF strips[1] # << >> THEN << strips[1][1].field_label >> ELSE << >>)
         \o first_labels(Tail(strips))

AllStrips(field_blocks) ==
    Flatten([b \in DOMAIN field_blocks |-> field_blocks[b].traverse_bubbles])

\* ParsedTemplate.__init__(config): [ok, template, config] or [ok = FALSE, error].
\* output_columns is the very list object stored in config when the key is present,
\* so the auto-fill appends to the caller's configuration: `config` is the
\* configuration dict as it is left behind.
ParsedTemplate(config) ==
    LET blocks_cfg == Get(config, "fieldBlocks", << >>)
        bubble_dimensions == Get(config, "bubbleDimensions", << 42, 42 >>)
        empty_val == Get(config, "emptyValue", << >>)
        given == Get(config, "outputColumns", << >>)
        parsed == [ b \in DOMAIN blocks_cfg |->
                      from_config(blocks_cfg[b].key, blocks_cfg[b].value,
                                  bubble_dimensions, empty_val) ]
        failed == {b \in DOMAIN parsed : ~parsed[b].ok}
        field_blocks == [ b \in DOMAIN parsed |-> parsed[b].block ]
        output_columns ==
            IF given # << >> THEN given ELSE first_labels(AllStrips(field_blocks))
    IN  IF failed # {}
        THEN [ ok |-> FALSE, error |-> parsed[CHOOSE b \in failed : \A c \in failed : b <= c].error ]
        ELSE [ ok |-> TRUE,
               template |->
                 [ page_dimensions |-> Get(config, "pageDimensions", << 1700, 2600 >>),
                   bubble_dimensions |-> bubble_dimensions,
                   empty_val |-> empty_val,
                   output_columns |-> output_columns,
                   field_blocks |-> field_blocks ],
               config |->
                 IF "outputColumns" \in DOMAIN config
                 THEN [ config EXCEPT !.outputColumns = output_columns ]
                 ELSE config ]

\* ------------------------------------------------------ bubble_detector.py

GLOBAL_PAGE_THRESHOLD_WHITE == 200
GLOBAL_PAGE_THRESHOLD_BLACK == 100
MIN_JUMP == 25
JUMP_DELTA == 30
CONFIDENT_SURPLUS == 25
MIN_GAP == 30
SINGLE_MARK_GAP == 8
MULTI_MARK_NEAR_GAP == 6
\* the literals of the fill-ratio override, in thousandths
FILL_FORCE_TOP == 60
FILL_COLLAPSE_TOP == 70
FILL_MIN_GAP == 15
\* thr1 = 255.0 of get_local_threshold
LOCAL_THR_INIT == 255

\* global_jump_scan with thr1 = q_vals[i - ls] + jump, the halving of the jump left out
RECURSIVE global_jump_scan_unhalved(_, _, _, _, _)
global_jump_scan_unhalved(q_vals, ls, i, l, best) ==
    IF i >= l THEN best
    ELSE LET jump == q_vals[i + ls + 1] - q_vals[i - ls + 1]
         IN  global_jump_scan_unhalved(q_vals, ls, i + 1, l,
                 IF jump > best.max1
                 THEN [ max1 |-> jump, thr1 |-> 2 * q_vals[i - ls + 1] + 2 * jump ]
                 ELSE best)

\* The loop `for i in range(ls, l)` of get_global_threshold (i is the 0-based loop
\* variable): best = [max1, thr1], thr1 in half grey levels.
RECURSIVE global_jump_scan(_, _, _, _, _)
global_jump_scan(q_vals, ls, i, l, best) ==
    IF i >= l THEN best
    ELSE LET jump == q_vals[i + ls + 1] - q_vals[i - ls + 1]
         IN  global_jump_scan(q_vals, ls, i + 1, l,
                 IF jump > best.max1
                 THEN [ max1 |-> jump, thr1 |-> 2 * q_vals[i - ls + 1] + jump ]
                 ELSE best)

\* get_global_threshold: (threshold, jump_low, jump_high), all in half grey levels.
\* The second pass (max2, thr2) is computed by the source but never returned.
get_global_threshold(q_vals_orig, looseness, page_type) ==
    LET global_default ==
            IF page_type = "white" THEN GLOBAL_PAGE_THRESHOLD_WHITE
            ELSE GLOBAL_PAGE_THRESHOLD_BLACK
        q_vals == sorted(q_vals_orig)
        n == Len(q_vals)
        ls == (looseness + 1) \div 2
        l == n - ls
        best == global_jump_scan(q_vals, ls, ls, l,
                                 [ max1 |-> MIN_JUMP, thr1 |-> 2 * global_default ])
    IN  IF n = 0
        THEN [ global_thr |-> 2 * global_default, j_low |-> 2 * global_default,
               j_high |-> 2 * global_default ]
        ELSE [ global_thr |-> best.thr1,
               j_low |-> best.thr1 - 2 * (best.max1 \div 2),
               j_high |-> best.thr1 + 2 * (best.max1 \div 2) ]

\* The loop `for i in range(1, l)` of get_local_threshold
RECURSIVE local_jump_scan(_, _, _, _)
local_jump_scan(q_vals, i, l, best) ==
    IF i >= l THEN best
    ELSE LET jump == q_vals[i + 2] - q_vals[i]
         IN  local_jump_scan(q_vals, i + 1, l,
                 IF jump > best.max1
                 THEN [ max1 |-> jump, thr1 |-> 2 * q_vals[i] + jump ]
                 ELSE best)

\* get_local_threshold without its guardrails (lines 100-105)
get_local_threshold_unclamped(q_vals_orig, global_thr, no_outliers) ==
    LET q_vals == sorted(q_vals_orig)
        n == Len(q_vals)
        l == n - 1
        best == local_jump_scan(q_vals, 1, l,
                                [ max1 |-> MIN_JUMP, thr1 |-> 2 * LOCAL_THR_INIT ])
        confident_jump == MIN_JUMP + CONFIDENT_SURPLUS
        thr1 == IF best.max1 < confident_jump THEN global_thr ELSE best.thr1
        qmin == SeqMin(q_vals)
        qmax == SeqMax(q_vals)
    IN  IF n = 0 THEN [ ok |-> FALSE, error |-> [ type |-> "ValueError", key |-> "np.max" ] ]
        ELSE IF n < 3
        THEN IF qmax - qmin < MIN_GAP
             THEN [ ok |-> TRUE, thr |-> global_thr ]
             ELSE [ ok |-> TRUE, thr |-> (2 * SeqSum(q_vals)) \div n ]
        ELSE [ ok |-> TRUE, thr |-> thr1 ]

\* get_local_threshold: [ok, thr] (half grey levels), or the ValueError numpy raises
\* for np.max of an empty strip. no_outliers is accepted and never read.
get_local_threshold(q_vals_orig, global_thr, no_outliers) ==
    LET q_vals == sorted(q_vals_orig)
        n == Len(q_vals)
        l == n - 1
        best == local_jump_scan(q_vals, 1, l,
                                [ max1 |-> MIN_JUMP, thr1 |-> 2 * LOCAL_THR_INIT ])
        confident_jump == MIN_JUMP + CONFIDENT_SURPLUS
        thr1 == IF best.max1 < confident_jump THEN global_thr ELSE best.thr1
        qmin == SeqMin(q_vals)
        qmax == SeqMax(q_vals)
    IN  IF n = 0 THEN [ ok |-> FALSE, error |-> [ type |-> "ValueError", key |-> "np.max" ] ]
        ELSE IF n < 3
        THEN IF qmax - qmin < MIN_GAP
             THEN [ ok |-> TRUE, thr |-> global_thr ]
             ELSE [ ok |-> TRUE, thr |-> (2 * SeqSum(q_vals)) \div n ]
        ELSE IF thr1 >= 2 * qmax THEN [ ok |-> TRUE, thr |-> qmin + qmax ]
        ELSE IF thr1 <= 2 * qmin THEN [ ok |-> TRUE, thr |-> global_thr ]
        ELSE [ ok |-> TRUE, thr |-> thr1 ]

\* select_marked_indices: [ok, marked] with marked the list of (1-based) indices, or
\* the IndexError of order[1] on a one-bubble strip whose bubble is below the threshold
select_marked_indices(q_vals, threshold) ==
    LET n == Len(q_vals)
        marked == Filter(Indices(n), {i \in 1..n : 2 * q_vals[i] < threshold})
        order_all == sorted_by(Indices(n), q_vals)
        order == sorted_by(marked, q_vals)
    IN  IF marked = << >> THEN [ ok |-> TRUE, marked |-> << >> ]
        ELSE IF Len(marked) = n
        THEN IF Len(order_all) < 2
             THEN [ ok |-> FALSE, error |-> [ type |-> "IndexError", key |-> "order[1]" ] ]
             ELSE IF q_vals[order_all[2]] - q_vals[order_all[1]] >= SINGLE_MARK_GAP
             THEN [ ok |-> TRUE, marked |-> << order_all[1] >> ]
             ELSE [ ok |-> TRUE, marked |-> << >> ]
        ELSE IF Len(marked) > 1
        THEN IF q_vals[order[2]] - q_vals[order[1]] >= SINGLE_MARK_GAP
             THEN [ ok |-> TRUE, marked |-> << order[1] >> ]
             ELSE [ ok |-> TRUE,
                    marked |-> Filter(marked,
                        {i \in 1..n : q_vals[i] - q_vals[order[1]] <= MULTI_MARK_NEAR_GAP}) ]
        ELSE [ ok |-> TRUE, marked |-> marked ]

\* fill_override without its first rule: a strip the threshold pass left unmarked stays
\* unmarked whatever the fill ratios
fill_override_collapse_only(marked_indices, q_fill_vals) ==
    LET order_fill == sorted_by_desc(Indices(Len(q_fill_vals)), q_fill_vals)
        top_fill == q_fill_vals[order_fill[1]]
        second_fill == IF Len(order_fill) > 1 THEN q_fill_vals[order_fill[2]] ELSE 0
        fill_gap == top_fill - second_fill
        collapsed ==
            IF Cardinality(marked_indices) >= 2
               /\ top_fill >= FILL_COLLAPSE_TOP /\ fill_gap >= FILL_MIN_GAP
            THEN {order_fill[1]} ELSE marked_indices
    IN  IF q_fill_vals = << >> THEN marked_indices ELSE collapsed

\* detect_bubbles, phase 3, the fill-ratio override of one strip: the final set of
\* marked indices, from the set the threshold pass marked
fill_override(marked_indices, q_fill_vals) ==
    LET order_fill == sorted_by_desc(Indices(Len(q_fill_vals)), q_fill_vals)
        top_fill == q_fill_vals[order_fill[1]]
        second_fill == IF Len(order_fill) > 1 THEN q_fill_vals[order_fill[2]] ELSE 0
        fill_gap == top_fill - second_fill
        forced ==
            IF Cardinality(marked_indices) = 0
               /\ top_fill >= FILL_FORCE_TOP /\ fill_gap >= FILL_MIN_GAP
            THEN {order_fill[1]} ELSE marked_indices
        collapsed ==
            IF Cardinality(forced) >= 2
               /\ top_fill >= FILL_COLLAPSE_TOP /\ fill_gap >= FILL_MIN_GAP
            THEN {order_fill[1]} ELSE forced
    IN  IF q_fill_vals = << >> THEN marked_indices ELSE collapsed

\* detect_bubbles, phase 3, lines 241-259 for one strip, from the outcome `local` of
\* get_local_threshold: [ok, marked_indices] or the error raised
mark_strip(q_vals, q_fill_vals, local) ==
    LET selected == select_marked_indices(q_vals, local.thr)
    IN  IF ~local.ok THEN local
        ELSE IF ~selected.ok THEN selected
        ELSE [ ok |-> TRUE,
               marked_indices |-> fill_override(Range(selected.marked), q_fill_vals) ]

\* detect_bubbles, phase 3, the decision for one strip: [ok, marked_indices] or the
\* error raised by get_local_threshold or select_marked_indices
strip_decision(q_vals, q_fill_vals, global_thr) ==
    mark_strip(q_vals, q_fill_vals, get_local_threshold(q_vals, global_thr, FALSE))

\* dict[k] = v
Put(d, k, v) == [x \in (DOMAIN d) \cup {k} |-> IF x = k THEN v ELSE d[x]]

\* detect_bubbles, "Build response" loop over the detected bubbles of one strip
RECURSIVE build_response(_, _)
build_response(acc, detected_bubbles) ==
    IF detected_bubbles = << >> THEN acc
    ELSE LET bubble == detected_bubbles[1]
         IN  build_response(
                 IF bubble.field_label \in DOMAIN acc.omr_response
                 THEN [ acc EXCEPT
                          !.omr_response = Put(@, bubble.field_label,
                                               @[bubble.field_label] \o bubble.field_value),
                          !.multi_marked_count = @ + 1 ]
                 ELSE [ acc EXCEPT
                          !.omr_response = Put(@, bubble.field_label, bubble.field_value) ],
                 Tail(detected_bubbles))

\* detect_bubbles, phase 3, lines 261-307 for one strip, from the strip's `decision`:
\* the response and the counts after the strip, or the error that ends the scan
record_strip(acc, field_block_bubbles, empty_val, decision) ==
    LET marked_seq == Filter(Indices(Len(field_block_bubbles)), decision.marked_indices)
        detected_bubbles == [ k \in DOMAIN marked_seq |-> field_block_bubbles[marked_seq[k]] ]
        built == build_response(acc, detected_bubbles)
    IN  IF ~decision.ok THEN [ acc EXCEPT !.ok = FALSE, !.error = decision.error ]
        ELSE IF Len(detected_bubbles) = 0
        THEN [ built EXCEPT
                 !.omr_response = Put(@, field_block_bubbles[1].field_label, empty_val),
                 !.unmarked_count = @ + 1 ]
        ELSE built

\* detect_bubbles, phase 3, one iteration of the loop over the strips
detect_strip(acc, field_block_bubbles, empty_val, q_vals, q_fill_vals, global_thr) ==
    record_strip(acc, field_block_bubbles, empty_val,
                 strip_decision(q_vals, q_fill_vals, global_thr))

\* The strips of the template in the order detect_bubbles visits them, each with the
\* empty_val of its block
StripsOf(tmpl) ==
    Flatten([ b \in DOMAIN tmpl.field_blocks |->
                [ j \in DOMAIN tmpl.field_blocks[b].traverse_bubbles |->
                    [ bubbles |-> tmpl.field_blocks[b].traverse_bubbles[j],
                      empty_val |-> tmpl.field_blocks[b].empty_val ] ] ])

\* detect_bubbles, phase 1, one bubble at (x, y) of a block with bubble_dimensions
\* `box` on a page image of page_dimensions `page`: the region img[y:y+box_h, x:x+box_w]
\* under numpy's slicing (a negative bound counts from the far edge, bounds are
\* clipped to the image), then the mean and the fill ratio that `reading` holds for a
\* region read in full. [ok, val, fill] or the error cv2.bitwise_and raises when the
\* region and the inner mask differ in shape (a region of one pixel is taken as a scalar).
bubble_features(x, y, box, page, reading) ==
    LET bound(i, n) == IF i < 0 THEN (IF i + n < 0 THEN 0 ELSE i + n)
                       ELSE (IF i > n THEN n ELSE i)
        extent(a, b, n) == IF bound(b, n) > bound(a, n) THEN bound(b, n) - bound(a, n) ELSE 0
        roi_h == extent(y, y + box[2], page[2])
        roi_w == extent(x, x + box[1], page[1])
    IN  IF roi_h * roi_w = 0
        THEN [ ok |-> TRUE, val |-> 255, fill |-> 0 ]
        ELSE IF << roi_w, roi_h >> = box \/ << roi_w, roi_h >> = << 1, 1 >>
        THEN [ ok |-> TRUE, val |-> reading.mean, fill |-> reading.fill ]
        ELSE [ ok |-> FALSE, error |-> "cv2.error" ]

\* detect_bubbles, phase 1, the loop over the bubbles of one strip from bubble i on:
\* [ok, q_strip_vals, q_fill_vals], or the error that leaves the loop
RECURSIVE extract_strip(_, _, _, _, _, _)
extract_strip(points, box, page, readings, i, acc) ==
    IF i > Len(points) THEN acc
    ELSE LET f == bubble_features(points[i][1], points[i][2], box, page, readings[i])
         IN  IF f.ok
             THEN extract_strip(points, box, page, readings, i + 1,
                                [ acc EXCEPT !.q_strip_vals = Append(@, f.val),
                                             !.q_fill_vals = Append(@, f.fill) ])
             ELSE f

\* detect_bubbles, phase 1: bubble_intensities[label] = q_strip_vals, strip by strip
RECURSIVE store_intensities(_, _, _, _)
store_intensities(acc, strips, all_q_strip_arrs, s) ==
    IF s > Len(strips) THEN acc
    ELSE store_intensities(
             IF strips[s].bubbles # << >>
             THEN Put(acc, strips[s].bubbles[1].field_label, all_q_strip_arrs[s])
             ELSE acc,
             strips, all_q_strip_arrs, s + 1)

\* detect_bubbles, phase 3: the loop over the strips, which an exception leaves
RECURSIVE detect_phase3(_, _, _, _, _, _)
detect_phase3(acc, strips, all_q_strip_arrs, all_q_fill_arrs, global_thr, s) ==
    IF s > Len(strips) \/ ~acc.ok THEN acc
    ELSE detect_phase3(
             detect_strip(acc, strips[s].bubbles, strips[s].empty_val,
                          all_q_strip_arrs[s], all_q_fill_arrs[s], global_thr),
             strips, all_q_strip_arrs, all_q_fill_arrs, global_thr, s + 1)

\* detect_bubbles, what leaves the function once phase 3 ended with `out`: the return
\* value of line 311, or the exception a strip raised
detect_return(out, bubble_intensities) ==
    IF ~out.ok THEN [ ok |-> FALSE, error |-> out.error ]
    ELSE [ ok |-> TRUE,
           omr_response |-> out.omr_response,
           bubble_intensities |-> bubble_intensities,
           multi_marked_count |-> out.multi_marked_count,
           unmarked_count |-> out.unmarked_count ]

\* detect_bubbles(img, template) from the per-strip features phase 1 extracts from the
\* image: all_q_strip_arrs (means) and all_q_fill_arrs (fill ratios), one list per
\* strip. Returns [ok, omr_response, bubble_intensities, multi_marked_count,
\* unmarked_count] or [ok = FALSE, error]. The standard deviations feed only
\* no_outliers, which get_local_threshold never reads.
detect_bubbles(all_q_strip_arrs, all_q_fill_arrs, tmpl) ==
    LET strips == StripsOf(tmpl)
        all_q_vals == Flatten(all_q_strip_arrs)
        global_thr == get_global_threshold(all_q_vals, 4, "white").global_thr
    IN  IF all_q_vals = << >>
        THEN [ ok |-> TRUE, omr_response |-> << >>, bubble_intensities |-> << >>,
               multi_marked_count |-> 0, unmarked_count |-> 0 ]
        ELSE detect_return(
                 detect_phase3(
                     [ ok |-> TRUE, error |-> None, omr_response |-> << >>,
                       multi_marked_count |-> 0, unmarked_count |-> 0 ],
                     strips, all_q_strip_arrs, all_q_fill_arrs, global_thr, 1),
                 store_intensities(<< >>, strips, all_q_strip_arrs, 1))

\* ---------------------------------------------------------------- evaluator.py

\* schemas.py MarkingScheme(): correct 1.0, incorrect 0.0, unmarked 0.0 (in quarters)
MarkingScheme(correct, incorrect, unmarked) ==
    [ correct |-> correct, incorrect |-> incorrect, unmarked |-> unmarked ]

\* a default scheme with negative marking (incorrect -0.25)
DEFAULT_MARKING_SCHEME_negative == MarkingScheme(4, -1, 0)

DEFAULT_MARKING_SCHEME == MarkingScheme(4, 0, 0)

\* str.upper() on the letters the model uses
UpperChar(c) ==
    CASE c = "a" -> "A" [] c = "b" -> "B" [] c = "c" -> "C" [] c = "d" -> "D"
      [] c = "e" -> "E" [] c = "x" -> "X" [] OTHER -> c

upper(s) == [ i \in DOMAIN s |-> UpperChar(s[i]) ]

DIGITS == {"0", "1", "2", "3", "4", "5", "6", "7", "8", "9"}

DigitValue(c) ==
    CASE c = "0" -> 0 [] c = "1" -> 1 [] c = "2" -> 2 [] c = "3" -> 3 [] c = "4" -> 4
      [] c = "5" -> 5 [] c = "6" -> 6 [] c = "7" -> 7 [] c = "8" -> 8 [] c = "9" -> 9

\* int(num) of a string of digits
RECURSIVE int(_)
int(num) ==
    IF num = << >> THEN 0
    ELSE 10 * int(SubSeq(num, 1, Len(num) - 1)) + DigitValue(num[Len(num)])

\* evaluate_response.sort_key: every digit of the question key, joined, as an integer
sort_key(question) ==
    LET num == Filter(question, DIGITS)
    IN  IF num # << >> THEN int(num) ELSE 0

\* the text stored as `marked` for an unmarked row
UNMARKED_TEXT == << "(unmarked)" >>

\* evaluate_row comparing the detection with the expected answer as written, without
\* .upper()
evaluate_row_case_sensitive(omr_response, question, correct_answer, scheme, bubble_intensities) ==
    LET marked == Get(omr_response, question, << >>)
        is_correct ==
            IF marked = << >> THEN None
            ELSE IF marked = correct_answer THEN Some(TRUE)
            ELSE Some(FALSE)
    IN  [ gain |-> IF marked = << >> THEN scheme.unmarked
                   ELSE IF marked = correct_answer THEN scheme.correct
                   ELSE scheme.incorrect,
          row |-> [ question |-> question,
                    marked |-> IF marked # << >> THEN marked ELSE UNMARKED_TEXT,
                    correct |-> correct_answer,
                    is_correct |-> is_correct,
                    intensity_values |-> Get(bubble_intensities, question, << >>) ] ]

\* evaluate_response, the body of the loop for one (question, correct_answer)
evaluate_row(omr_response, question, correct_answer, scheme, bubble_intensities) ==
    LET marked == Get(omr_response, question, << >>)
        is_correct ==
            IF marked = << >> THEN None
            ELSE IF upper(marked) = upper(correct_answer) THEN Some(TRUE)
            ELSE Some(FALSE)
    IN  [ gain |-> IF marked = << >> THEN scheme.unmarked
                   ELSE IF upper(marked) = upper(correct_answer) THEN scheme.correct
                   ELSE scheme.incorrect,
          row |-> [ question |-> question,
                    marked |-> IF marked # << >> THEN marked ELSE UNMARKED_TEXT,
                    correct |-> correct_answer,
                    is_correct |-> is_correct,
                    intensity_values |-> Get(bubble_intensities, question, << >>) ] ]

\* evaluate_response: [score, total, bubble_details]; score in quarters of a point
evaluate_response(omr_response, key, scheme_opt, bubble_intensities) ==
    LET scheme == IF IsNone(scheme_opt) THEN DEFAULT_MARKING_SCHEME ELSE The(scheme_opt)
        rows == [ i \in DOMAIN key |->
                    evaluate_row(omr_response, key[i].key, key[i].value, scheme,
                                 bubble_intensities) ]
        details == [ i \in DOMAIN key |-> rows[i].row ]
        order == sorted_by(Indices(Len(key)), [ i \in DOMAIN key |-> sort_key(details[i].question) ])
    IN  [ score |-> SeqSum([ i \in DOMAIN key |-> rows[i].gain ]),
          total |-> Len(key),
          bubble_details |-> [ i \in DOMAIN key |-> details[order[i]] ] ]

\* ---------------------------------------------------------------- schemas.py

\* the decimal digits of a positive integer, as a str
RECURSIVE str(_)
str(n) ==
    LET d == << "0", "1", "2", "3", "4", "5", "6", "7", "8", "9" >>
    IN  IF n < 10 THEN << d[n + 1] >> ELSE str(n \div 10) \o << d[(n % 10) + 1] >>

\* f"q{i}"
QLabel(i) == << "q" >> \o str(i)

DefaultBlock(first, last, x) ==
    [ fieldType |-> "QTYPE_MCQ5",
      fieldLabels |-> [ i \in 1..(last - first + 1) |-> QLabel(first + i - 1) ],
      origin |-> << x, 680 >>,
      bubblesGap |-> 570,
      labelsGap |-> 756,
      direction |-> "vertical" ]

DEFAULT_TEMPLATE_CONFIG ==
    [ pageDimensions |-> << 1700, 2600 >>,
      bubbleDimensions |-> << 42, 42 >>,
      fieldBlocks |->
        << [ key |-> "Column1_Q1_25", value |-> DefaultBlock(1, 25, 90) ],
           [ key |-> "Column2_Q26_50", value |-> DefaultBlock(26, 50, 530) ],
           [ key |-> "Column3_Q51_75", value |-> DefaultBlock(51, 75, 970) ],
           [ key |-> "Column4_Q76_100", value |-> DefaultBlock(76, 100, 1410) ] >>,
      customLabels |-> << >>,
      outputColumns |-> [ i \in 1..100 |-> QLabel(i) ],
      emptyValue |-> << >> ]

\* ScanResult
ScanResult(detected_answers, score, total, percentage, bubble_details, multi_marked_count, unmarked_count, annotated_image_base64) ==
    [ detected_answers |-> detected_answers,
      score |-> score,
      total |-> total,
      percentage |-> percentage,
      bubble_details |-> bubble_details,
      multi_marked_count |-> multi_marked_count,
      unmarked_count |-> unmarked_count,
      annotated_image_base64 |-> annotated_image_base64 ]

\* -------------------------------------------------------- image_processing.py
\*
\* An image enters the model as what the OpenCV calls of the preprocessor measure
\* on it:
\*   contour  pass 1: whether a marker centre was found in every quadrant, and the
\*            width and height of the quadrilateral of the centres (percent of the
\*            image width and height)
\*   clean    pass 2: the template match of the blurred marker on the image
\*   eroded   pass 3: the template match of the erode-subtracted marker
\*   page     the page fallback: "quad" when a contour qualifies as the page,
\*            "none" when none does, "raises" when an OpenCV call throws
\* A template match is [best_scale, all_max_t, quads, w_pct, h_pct]: the scale and
\* score of the sweep on the whole image, per quadrant whether the scaled marker is
\* smaller than the quadrant, its best score and the distance of the matched centre
\* from the expected corner (percent of the image width and height), and the size
\* of the quadrilateral of the four centres. Scores are hundredths.
\* Images that leave the preprocessor are named by how they were obtained.

MIN_MATCHING_THRESHOLD == 30
MAX_MATCHING_VARIATION == 41
MAX_CORNER_DIST == 40
MIN_QUAD_TEMPLATE == 30
MIN_QUAD_CONTOUR == 35

Abs(x) == IF x < 0 THEN 0 - x ELSE x

\* _load_marker: the marker template, or the exception raised for a marker file that
\* does not exist ("missing") or that cv2.imread cannot read ("unreadable")
load_marker(marker_file) ==
    IF marker_file = "missing"
    THEN [ ok |-> FALSE, error |-> [ type |-> "FileNotFoundError", key |-> "marker" ] ]
    ELSE IF marker_file = "unreadable"
    THEN [ ok |-> FALSE, error |-> [ type |-> "ValueError", key |-> "marker" ] ]
    ELSE [ ok |-> TRUE ]

\* order_points: rect[0] and rect[2] are the points of least and greatest x + y,
\* rect[1] and rect[3] those of least and greatest y - x (np.diff along axis 1);
\* np.argmin and np.argmax take the first index among equals
order_points(pts) ==
    LET s == [ i \in DOMAIN pts |-> pts[i][1] + pts[i][2] ]
        diff == [ i \in DOMAIN pts |-> pts[i][2] - pts[i][1] ]
        argmin(f) == CHOOSE i \in DOMAIN f :
                        /\ \A j \in DOMAIN f : f[i] <= f[j]
                        /\ \A j \in DOMAIN f : j < i => f[j] > f[i]
        argmax(f) == CHOOSE i \in DOMAIN f :
                        /\ \A j \in DOMAIN f : f[i] >= f[j]
                        /\ \A j \in DOMAIN f : j < i => f[j] < f[i]
    IN  << pts[argmin(s)], pts[argmin(diff)], pts[argmax(s)], pts[argmax(diff)] >>

\* _get_best_marker_scale on what cv2 measures for the marker resized to each scale
\* r0 (percent of its height): fits[r0], whether the rescaled marker is smaller than
\* the image, and response[r0], the maximum of the normalised correlation (hundredths).
\* [best_scale, all_max_t, tried]: tried lists the scales matchTemplate was run at.
get_best_marker_scale(response, fits, scale_range, scale_steps) ==
    LET descent == (scale_range[2] - scale_range[1]) \div scale_steps
        \* np.arange(scale_range[1], scale_range[0], -descent)
        count == (scale_range[2] - scale_range[1] + descent - 1) \div descent
        arange == [ i \in 1..count |-> scale_range[2] - (i - 1) * descent ]
        RECURSIVE sweep(_, _)
        sweep(i, acc) ==
            IF i > Len(arange) THEN acc
            ELSE IF ~fits[arange[i]] THEN sweep(i + 1, acc)
            ELSE sweep(i + 1,
                       IF response[arange[i]] > acc.all_max_t
                       THEN [ best_scale |-> Some(arange[i]),
                              all_max_t |-> response[arange[i]],
                              tried |-> Append(acc.tried, arange[i]) ]
                       ELSE [ acc EXCEPT !.tried = Append(@, arange[i]) ])
    IN  sweep(1, [ best_scale |-> None, all_max_t |-> 0, tried |-> << >> ])

\* _match_markers_in_quadrants, the loop over the quadrants from quadrant k on: "ok"
\* when every quadrant passes, else the reason of the first `return None`
RECURSIVE match_quadrants(_, _, _)
match_quadrants(all_max_t, quads, k) ==
    IF k > Len(quads) THEN "ok"
    ELSE IF ~quads[k].fits THEN "marker larger than quadrant"
    ELSE IF quads[k].max_t < MIN_MATCHING_THRESHOLD THEN "score below threshold"
    ELSE IF Abs(all_max_t - quads[k].max_t) >= MAX_MATCHING_VARIATION
    THEN "score variation too high"
    ELSE IF quads[k].dist_x > MAX_CORNER_DIST \/ quads[k].dist_y > MAX_CORNER_DIST
    THEN "centre too far"
    ELSE match_quadrants(all_max_t, quads, k + 1)

\* _match_markers_in_quadrants: [warped, reason], warped = None on `return None`
match_markers_in_quadrants(m, pass) ==
    LET quadrants == match_quadrants(m.all_max_t, m.quads, 1)
    IN  IF m.best_scale = None THEN [ warped |-> None, reason |-> "no scale" ]
        ELSE IF quadrants # "ok" THEN [ warped |-> None, reason |-> quadrants ]
        ELSE IF m.w_pct < MIN_QUAD_TEMPLATE \/ m.h_pct < MIN_QUAD_TEMPLATE
        THEN [ warped |-> None, reason |-> "quad too small" ]
        ELSE [ warped |-> Some([ kind |-> "marker warp", pass |-> pass ]), reason |-> "ok" ]

\* crop_on_markers_contour: [warped, reason]
crop_on_markers_contour(contour) ==
    IF ~contour.found THEN [ warped |-> None, reason |-> "no contour" ]
    ELSE IF contour.w_pct < MIN_QUAD_CONTOUR \/ contour.h_pct < MIN_QUAD_CONTOUR
    THEN [ warped |-> None, reason |-> "quad too small" ]
    ELSE [ warped |-> Some([ kind |-> "marker warp", pass |-> 1 ]), reason |-> "ok" ]

\* crop_on_markers trying the erode-subtract match before the clean match
crop_on_markers_eroded_first(image, marker_file) ==
    LET pass1 == crop_on_markers_contour(image.contour)
        marker == load_marker(marker_file)
        pass2 == match_markers_in_quadrants(image.clean, 2)
        pass3 == match_markers_in_quadrants(image.eroded, 3)
    IN  IF pass1.warped # None
        THEN [ ok |-> TRUE, cropped |-> pass1.warped, passes |-> << 1 >>,
               reasons |-> << pass1.reason >> ]
        ELSE IF ~marker.ok
        THEN [ ok |-> FALSE, error |-> marker.error, passes |-> << 1, 3 >>,
               reasons |-> << pass1.reason >> ]
        ELSE IF pass3.warped # None
        THEN [ ok |-> TRUE, cropped |-> pass3.warped, passes |-> << 1, 3 >>,
               reasons |-> << pass1.reason, pass3.reason >> ]
        ELSE [ ok |-> TRUE, cropped |-> pass2.warped, passes |-> << 1, 3, 2 >>,
               reasons |-> << pass1.reason, pass3.reason, pass2.reason >> ]

\* crop_on_markers(image) with the marker file as it is on disk:
\* [ok, cropped, passes, reasons] or [ok = FALSE, error, passes, reasons];
\* passes lists the passes entered, reasons why each one that returned ended
crop_on_markers(image, marker_file) ==
    LET pass1 == crop_on_markers_contour(image.contour)
        marker == load_marker(marker_file)
        pass2 == match_markers_in_quadrants(image.clean, 2)
        pass3 == match_markers_in_quadrants(image.eroded, 3)
    IN  IF pass1.warped # None
        THEN [ ok |-> TRUE, cropped |-> pass1.warped, passes |-> << 1 >>,
               reasons |-> << pass1.reason >> ]
        ELSE IF ~marker.ok
        THEN [ ok |-> FALSE, error |-> marker.error, passes |-> << 1, 2 >>,
               reasons |-> << pass1.reason >> ]
        ELSE IF pass2.warped # None
        THEN [ ok |-> TRUE, cropped |-> pass2.warped, passes |-> << 1, 2 >>,
               reasons |-> << pass1.reason, pass2.reason >> ]
        ELSE [ ok |-> TRUE, cropped |-> pass3.warped, passes |-> << 1, 2, 3 >>,
               reasons |-> << pass1.reason, pass2.reason, pass3.reason >> ]

\* auto_detect_and_crop_page: the warped page, or the image itself when no contour
\* qualifies or anything throws
auto_detect_and_crop_page(image) ==
    IF image.page = "quad" THEN [ kind |-> "page crop", pass |-> 0 ]
    ELSE [ kind |-> "input", pass |-> 0 ]

\* preprocess_omr_image: [ok, img, passes, reasons, fallback] or
\* [ok = FALSE, error, passes, reasons, fallback]; fallback tells whether
\* auto_detect_and_crop_page was called. normalize_image keeps the image's kind.
preprocess_omr_image(image, marker_file) ==
    LET crop == crop_on_markers(image, marker_file)
    IN  IF ~crop.ok
        THEN [ ok |-> FALSE, error |-> crop.error, passes |-> crop.passes,
               reasons |-> crop.reasons, fallback |-> FALSE ]
        ELSE IF crop.cropped # None
        THEN [ ok |-> TRUE, img |-> The(crop.cropped), passes |-> crop.passes,
               reasons |-> crop.reasons, fallback |-> FALSE ]
        ELSE [ ok |-> TRUE, img |-> auto_detect_and_crop_page(image),
               passes |-> crop.passes, reasons |-> crop.reasons, fallback |-> TRUE ]

\* --- bounded images

\* the marker file on disk
MARKER_FILES == {"ok", "missing", "unreadable"}

\* quadrilateral sizes (percent of width, of height) around the two size limits
QUAD_SIZES == { << 80, 80 >>, << 35, 35 >>, << 34, 80 >>, << 80, 34 >>,
                << 30, 30 >>, << 29, 80 >>, << 80, 29 >> }

CONTOUR_READINGS ==
    { [ found |-> FALSE, w_pct |-> 0, h_pct |-> 0 ] }
    \cup { [ found |-> TRUE, w_pct |-> sz[1], h_pct |-> sz[2] ] : sz \in QUAD_SIZES }

\* a quadrant in which the marker is matched well, next to its corner
GoodQuadrant == [ fits |-> TRUE, max_t |-> 80, dist_x |-> 10, dist_y |-> 10 ]

\* a quadrant at and beyond each limit of the loop, for a sweep score of 80
QUADRANT_READINGS ==
    { GoodQuadrant,
      [ GoodQuadrant EXCEPT !.fits = FALSE ],
      [ GoodQuadrant EXCEPT !.max_t = 29 ],
      [ GoodQuadrant EXCEPT !.max_t = 39 ],
      [ GoodQuadrant EXCEPT !.max_t = 40 ],
      [ GoodQuadrant EXCEPT !.dist_x = 41 ],
      [ GoodQuadrant EXCEPT !.dist_x = 40, !.dist_y = 40 ],
      [ GoodQuadrant EXCEPT !.dist_y = 41 ] }

GoodMatch ==
    [ best_scale |-> Some(94), all_max_t |-> 80,
      quads |-> << GoodQuadrant, GoodQuadrant, GoodQuadrant, GoodQuadrant >>,
      w_pct |-> 80, h_pct |-> 80 ]

\* no scale found, one quadrant (the first or the last) off, or a small quadrilateral
MATCH_READINGS ==
    { [ GoodMatch EXCEPT !.best_scale = None, !.all_max_t = 0 ] }
    \cup { [ GoodMatch EXCEPT !.quads[k] = q ] : k \in {1, 4}, q \in QUADRANT_READINGS }
    \cup { [ GoodMatch EXCEPT !.w_pct = sz[1], !.h_pct = sz[2] ] : sz \in QUAD_SIZES }

PAGE_READINGS == {"quad", "none", "raises"}

PageImage(contour, clean, eroded, page) ==
    [ contour |-> contour, clean |-> clean, eroded |-> eroded, page |-> page ]

\* a match in which the marker is found nowhere
NoMatch == [ GoodMatch EXCEPT !.best_scale = None, !.all_max_t = 0 ]
NoContour == [ found |-> FALSE, w_pct |-> 0, h_pct |-> 0 ]

\* the photographs a scan is run on: markers found by pass 1, 2, 3 or by none
SCAN_IMAGES ==
    { PageImage([ found |-> TRUE, w_pct |-> 80, h_pct |-> 80 ], NoMatch, NoMatch, "none"),
      PageImage(NoContour, GoodMatch, NoMatch, "none"),
      PageImage(NoContour, NoMatch, GoodMatch, "none"),
      PageImage(NoContour, NoMatch, NoMatch, "quad"),
      PageImage(NoContour, NoMatch, NoMatch, "none"),
      PageImage(NoContour, NoMatch, NoMatch, "raises") }

\* ---------------------------------------------------------------- omr_engine.py

\* Python truthiness of an optional dict: None and {} are falsy
Truthy(opt) == ~IsNone(opt) /\ The(opt) # << >>

\* round((score / total) * 100, 2), in hundredths of a percent
percentage_of(score, total) == RoundHalfEven(2500 * score, total)

\* evaluate_step testing `answer_key is not None` where the source tests `answer_key`
evaluate_step_not_none(key_opt, scheme_opt, det) ==
    LET ev == evaluate_response(det.omr_response, The(key_opt), scheme_opt,
                                det.bubble_intensities)
    IN  IF ~IsNone(key_opt)
        THEN [ score |-> Some(ev.score),
               total |-> Some(ev.total),
               percentage |-> IF ev.total > 0 THEN Some(percentage_of(ev.score, ev.total))
                              ELSE None,
               bubble_details |-> ev.bubble_details ]
        ELSE [ score |-> None, total |-> None, percentage |-> None,
               bubble_details |-> << >> ]

\* process_omr_image, step 6: [score, total, percentage, bubble_details]
evaluate_step(key_opt, scheme_opt, det) ==
    LET ev == evaluate_response(det.omr_response, The(key_opt), scheme_opt,
                                det.bubble_intensities)
    IN  IF Truthy(key_opt)
        THEN [ score |-> Some(ev.score),
               total |-> Some(ev.total),
               percentage |-> IF ev.total > 0 THEN Some(percentage_of(ev.score, ev.total))
                              ELSE None,
               bubble_details |-> ev.bubble_details ]
        ELSE [ score |-> None, total |-> None, percentage |-> None,
               bubble_details |-> << >> ]

Raise(e) ==
    /\ pc' = "raised"
    /\ error' = Some(e)

\* step 1 going on to the template with an image that could not be decoded
DecodeImage_unchecked ==
    /\ pc = "decode"
    /\ pc' = "parse"
    /\ UNCHANGED <<image_data, template_config, answer_key, marking_scheme,
                   template, detection, evaluation, result, error, call>>

\* step 1: decode_base64_image / read_image_file
DecodeImage ==
    /\ pc = "decode"
    /\ IF image_data = "corrupt"
       THEN Raise([ type |-> "ValueError", key |-> "decode" ])
       ELSE pc' = "parse" /\ UNCHANGED error
    /\ UNCHANGED <<image_data, template_config, answer_key, marking_scheme,
                   template, detection, evaluation, result, call>>

\* config = template_config or DEFAULT_TEMPLATE_CONFIG
select_config(config_opt) ==
    IF Truthy(config_opt) THEN The(config_opt) ELSE DEFAULT_TEMPLATE_CONFIG

\* step 2: config = template_config or DEFAULT_TEMPLATE_CONFIG; ParsedTemplate(config)
ParseTemplate ==
    /\ pc = "parse"
    /\ LET config == select_config(template_config)
           parsed == ParsedTemplate(config)
       IN  IF parsed.ok
           THEN /\ template' = Some(parsed.template)
                /\ template_config' = IF Truthy(template_config) THEN Some(parsed.config)
                                      ELSE template_config
                /\ pc' = "preprocess"
                /\ UNCHANGED error
           ELSE /\ Raise(parsed.error)
                /\ UNCHANGED <<template, template_config>>
    /\ UNCHANGED <<image_data, answer_key, marking_scheme, detection, evaluation,
                   result, call>>

\* step 3: preprocess_omr_image on the decoded image, with the marker file as it is
\* on disk; an exception of _load_marker leaves process_omr_image
Preprocess ==
    /\ pc = "preprocess"
    /\ \E image \in SCAN_IMAGES, marker_file \in MARKER_FILES :
         \E pre \in { preprocess_omr_image(image, marker_file) } :
            IF pre.ok
            THEN pc' = "resize" /\ UNCHANGED error
            ELSE Raise(pre.error)
    /\ UNCHANGED <<image_data, template_config, answer_key, marking_scheme,
                   template, detection, evaluation, result, call>>

\* step 4: resize_image to the template's page dimensions
Resize ==
    /\ pc = "resize"
    /\ pc' = "detect"
    /\ UNCHANGED <<image_data, template_config, answer_key, marking_scheme,
                   template, detection, evaluation, result, error, call>>

\* ----------------------------------------------------- bounded scan inputs

\* Mean grey levels a bubble can show: 57 - 50 lies between MULTI_MARK_NEAR_GAP and
\* SINGLE_MARK_GAP, 60 - 50 above both, 60 - 57 below both; 230 is blank paper.
MEANS == {50, 57, 60, 230}
\* Fill ratios (thousandths) a bubble can show
FILLS == {0, 80}
\* At most this many bubbles of one strip have a non-zero fill ratio
MaxFilled == 1

StripFeatures(n) ==
    { [ means |-> m, fills |-> f ] :
        m \in [1..n -> MEANS],
        f \in { g \in [1..n -> FILLS] : Cardinality({i \in 1..n : g[i] # 0}) <= MaxFilled } }

\* every assignment of features to strips of the given lengths
RECURSIVE SheetsFor(_)
SheetsFor(lens) ==
    IF lens = << >> THEN { << >> }
    ELSE { << h >> \o t : h \in StripFeatures(lens[1]), t \in SheetsFor(Tail(lens)) }

\* what phase 1 of detect_bubbles can read off a page image for the template's grid
Sheets(tmpl) ==
    LET strips == StripsOf(tmpl)
    IN  SheetsFor([ s \in DOMAIN strips |-> Len(strips[s].bubbles) ])

q1 == << "q", "1" >>
q2 == << "q", "2" >>
q3 == << "q", "3" >>

Block(field_labels, bubble_values) ==
    [ fieldLabels |-> field_labels,
      bubbleValues |-> bubble_values,
      origin |-> << 90, 680 >>,
      bubblesGap |-> 570,
      labelsGap |-> 756,
      direction |-> "horizontal" ]

TypedBlock(field_type, field_labels) ==
    [ fieldType |-> field_type,
      fieldLabels |-> field_labels,
      origin |-> << 90, 680 >>,
      bubblesGap |-> 570,
      labelsGap |-> 756 ]

AB == << Str("A"), Str("B") >>

\* one block, one question, one choice
CfgSingle ==
    [ fieldBlocks |-> << [ key |-> "B1", value |-> Block(<< q1 >>, << Str("A") >>) ] >> ]
\* two questions of two choices, outputColumns absent (auto-filled)
CfgPair ==
    [ fieldBlocks |-> << [ key |-> "B1", value |-> Block(<< q1, q2 >>, AB) ] >> ]
\* the same grid with outputColumns supplied
CfgPairColumns ==
    [ fieldBlocks |-> << [ key |-> "B1", value |-> Block(<< q1, q2 >>, AB) ] >>,
      outputColumns |-> << q1 >> ]
\* the label q1 in two blocks, a non-empty emptyValue
CfgRepeated ==
    [ fieldBlocks |-> << [ key |-> "B1", value |-> Block(<< q1 >>, AB) ],
                         [ key |-> "B2", value |-> Block(<< q1 >>, AB) ] >>,
      outputColumns |-> << >>,
      emptyValue |-> Str("-") ]
\* one question of four / five choices from the field type registry
CfgMcq4 ==
    [ fieldBlocks |-> << [ key |-> "B1", value |-> TypedBlock("QTYPE_MCQ4", << q1 >>) ] >> ]
CfgMcq5 ==
    [ fieldBlocks |-> << [ key |-> "B1", value |-> TypedBlock("QTYPE_MCQ5", << q1 >>) ] >> ]

\* fieldBlocks present and empty
CfgNoBlocks == [ fieldBlocks |-> << >> ]
\* a fieldType the registry does not hold, with the block's own bubbleValues
CfgUnknownType ==
    [ fieldBlocks |->
        << [ key |-> "B1",
             value |-> Overlay(Block(<< q1 >>, AB), [ fieldType |-> "QTYPE_FOO" ]) ] >> ]
\* a question with no choice: the grid has one strip and no bubble
CfgNoChoices ==
    [ fieldBlocks |-> << [ key |-> "B1", value |-> Block(<< q1 >>, << >>) ] >> ]
\* a block without labelsGap
CfgNoLabelsGap ==
    [ fieldBlocks |->
        << [ key |-> "B1",
             value |-> [ fieldLabels |-> << q1 >>, bubbleValues |-> AB,
                         origin |-> << 90, 680 >>, bubblesGap |-> 570 ] ] >> ]

TEMPLATE_CONFIGS ==
    { CfgSingle, CfgPair, CfgPairColumns, CfgRepeated, CfgMcq4, CfgMcq5,
      CfgNoBlocks, CfgUnknownType, CfgNoChoices, CfgNoLabelsGap }

Entry(k, v) == [ key |-> k, value |-> v ]

\* (answer_key, marking_scheme) pairs a scan is requested with
SCAN_SCORING ==
    { << None, None >>,
      << Some(<< >>), None >>,
      << Some(<< Entry(q1, Str("A")) >>), None >>,
      << Some(<< Entry(q1, Str("A")), Entry(q2, Str("b")), Entry(q3, Str("C")) >>), None >>,
      << Some(<< Entry(q1, Str("A")), Entry(q2, Str("b")), Entry(q3, Str("C")) >>),
         Some(MarkingScheme(4, -1, 0)) >> }

\* -------------------------------------------------- process_omr_image, cont.

\* step 5: detect_bubbles on the page image
DetectBubbles ==
    /\ pc = "detect"
    /\ \E sheet \in Sheets(The(template)) :
         \E det \in { detect_bubbles([ s \in DOMAIN sheet |-> sheet[s].means ],
                                      [ s \in DOMAIN sheet |-> sheet[s].fills ],
                                      The(template)) } :
             IF det.ok
             THEN detection' = Some(det) /\ pc' = "evaluate" /\ UNCHANGED error
             ELSE Raise(det.error) /\ UNCHANGED detection
    /\ UNCHANGED <<image_data, template_config, answer_key, marking_scheme,
                   template, evaluation, result, call>>

\* step 6: evaluate_response when an answer key is supplied
Evaluate ==
    /\ pc = "evaluate"
    /\ evaluation' = Some(evaluate_step(answer_key, marking_scheme, The(detection)))
    /\ pc' = "encode"
    /\ UNCHANGED <<image_data, template_config, answer_key, marking_scheme,
                   template, detection, result, error, call>>

\* step 7: encode the annotated image and return the ScanResult
Return ==
    /\ pc = "encode"
    /\ result' = Some(ScanResult(The(detection).omr_response,
                                 The(evaluation).score,
                                 The(evaluation).total,
                                 The(evaluation).percentage,
                                 The(evaluation).bubble_details,
                                 The(detection).multi_marked_count,
                                 The(detection).unmarked_count,
                                 "jpeg"))
    /\ pc' = "done"
    /\ UNCHANGED <<image_data, template_config, answer_key, marking_scheme,
                   template, detection, evaluation, error, call>>

NoCall == [ fn |-> "none" ]

Init ==
    /\ pc = "decode"
    /\ image_data \in {"valid", "corrupt"}
    /\ template_config \in { Some(c) : c \in TEMPLATE_CONFIGS }
    /\ \E sc \in SCAN_SCORING : answer_key = sc[1] /\ marking_scheme = sc[2]
    /\ template = None
    /\ detection = None
    /\ evaluation = None
    /\ result = None
    /\ error = None
    /\ call = NoCall

Next ==
    \/ DecodeImage
    \/ ParseTemplate
    \/ Preprocess
    \/ Resize
    \/ DetectBubbles
    \/ Evaluate
    \/ Return

Spec == Init /\ [][Next]_vars

\* ------------------------------------------- direct calls of core functions

IdleScan ==
    /\ pc = "idle"
    /\ image_data = "valid"
    /\ template_config = None
    /\ answer_key = None
    /\ marking_scheme = None
    /\ template = None
    /\ detection = None
    /\ evaluation = None
    /\ result = None
    /\ error = None

ScanVars == <<pc, image_data, template_config, answer_key, marking_scheme,
              template, detection, evaluation, result, error>>

\* --- get_global_threshold on bounded sorted lists

\* longest list passed to get_global_threshold
MaxLen == 6
\* 25 - 0 is exactly MIN_JUMP; 10 - 0 and 25 - 10 are below it, the other gaps above
THR_VALUES == {0, 10, 25, 60, 100}
\* the looseness values detect_bubbles passes: the default 1 and 4
LOOSENESS == {1, 4}

\* the non-decreasing lists of length n over THR_VALUES whose values are all >= lo
RECURSIVE SortedLists(_, _)
SortedLists(n, lo) ==
    IF n = 0 THEN { << >> }
    ELSE UNION { { << v >> \o t : t \in SortedLists(n - 1, v) } :
                 v \in {x \in THR_VALUES : x >= lo} }

InitThreshold ==
    /\ IdleScan
    /\ \E n \in 0..MaxLen, ls \in LOOSENESS :
         \E q \in SortedLists(n, 0) :
           call = [ fn |-> "get_global_threshold",
                    args |-> [ q_vals_orig |-> q, looseness |-> ls ],
                    ret |-> None ]

CallGetGlobalThreshold ==
    /\ call.fn = "get_global_threshold"
    /\ call.ret = None
    /\ call' = [ call EXCEPT !.ret =
                   Some(get_global_threshold(call.args.q_vals_orig, call.args.looseness, "white")) ]
    /\ UNCHANGED ScanVars

NextThreshold == CallGetGlobalThreshold

SpecThreshold == InitThreshold /\ [][NextThreshold]_vars

\* --- one iteration of the strip loop of detect_bubbles, for any global threshold

\* number of choices of the strips tried
STRIP_SIZES == 1..5
\* global thresholds (half grey levels): below, at and between the MEANS, the
\* page default 200 and one above every mean
GLOBAL_THRS == {80, 100, 117, 400, 480}
\* the empty_val of the strip's block
EMPTY_VALS == { << >>, << "-" >> }

MCQ5_VALUES == FIELD_TYPES.QTYPE_MCQ5.bubbleValues

\* the strip of question q1 with the first n choices of A..E
StripBubbles(n) == [ k \in 1..n |-> Bubble(90 + 57 * (k - 1), 680, q1, MCQ5_VALUES[k]) ]

EmptyResponse ==
    [ ok |-> TRUE, error |-> None, omr_response |-> << >>,
      multi_marked_count |-> 0, unmarked_count |-> 0 ]

InitStrip ==
    /\ IdleScan
    /\ \E n \in STRIP_SIZES, g \in GLOBAL_THRS, e \in EMPTY_VALS :
         \E f \in StripFeatures(n) :
           call = [ fn |-> "detect_strip",
                    args |-> [ q_vals |-> f.means, q_fill_vals |-> f.fills,
                               global_thr |-> g, empty_val |-> e ],
                    ret |-> None ]

\* lines 233-307 for the strip: the local threshold, the indices the threshold pass
\* marks, and the response and counts after the strip
CallDetectStrip ==
    /\ call.fn = "detect_strip"
    /\ call.ret = None
    /\ LET a == call.args
           local == get_local_threshold(a.q_vals, a.global_thr, FALSE)
           selected == select_marked_indices(a.q_vals, local.thr)
       IN  call' = [ call EXCEPT !.ret =
                Some([ threshold |-> local.thr,
                       selected |-> selected,
                       decision |-> strip_decision(a.q_vals, a.q_fill_vals, a.global_thr),
                       after |-> detect_strip(EmptyResponse, StripBubbles(Len(a.q_vals)),
                                              a.empty_val, a.q_vals, a.q_fill_vals,
                                              a.global_thr) ]) ]
    /\ UNCHANGED ScanVars

NextStrip == CallDetectStrip

SpecStrip == InitStrip /\ [][NextStrip]_vars

\* --- evaluate_response on bounded answer keys and detections

\* most questions in an answer key
MaxKeys == 3

s2q1 == << "s", "2", "q", "1" >>
qx == << "q", "x" >>
q9 == << "q", "9" >>

EVAL_QUESTIONS == { q1, q2, s2q1, qx }

\* the expected answer of each question
ExpectedAnswer(q) ==
    CASE q = q1 -> Str("A") [] q = q2 -> Str("b") [] q = s2q1 -> Str("A") [] OTHER -> Str("C")

\* what the detection map can hold for a question ("" included)
DETECTED == { << >>, Str("A"), Str("B"), Str("a") }

\* answer keys: the questions in every insertion order, without repetition
AnswerKeys ==
    UNION { { [ i \in 1..n |-> Entry(qs[i], ExpectedAnswer(qs[i])) ] :
              qs \in { s \in [1..n -> EVAL_QUESTIONS] :
                         \A i, j \in 1..n : i # j => s[i] # s[j] } } :
            n \in 0..MaxKeys }

\* detection maps: any subset of the key's questions detected, and a question the key
\* does not ask
Detections(key) ==
    UNION { { [ q \in dom \cup {q9} |-> IF q = q9 THEN Str("C") ELSE d[q] ] :
              d \in [dom -> DETECTED] } :
            dom \in SUBSET Keys(key) }

MARKING_SCHEMES ==
    { None, Some(MarkingScheme(4, 0, 0)), Some(MarkingScheme(4, -1, 0)),
      Some(MarkingScheme(8, -4, 2)) }

\* the arguments of one call of evaluate_response
EvaluateArgs(omr_response, key, scheme_opt) ==
    [ omr_response |-> omr_response, answer_key |-> key, marking_scheme |-> scheme_opt ]

\* spec.md section 8, end-to-end scenario 3
Scenario3 ==
    EvaluateArgs((q1 :> Str("A")) @@ (q2 :> Str("X")) @@ (q3 :> << >>),
                 << Entry(q1, Str("A")), Entry(q2, Str("B")), Entry(q3, Str("C")) >>,
                 Some(MarkingScheme(4, -1, 0)))

InitEvaluate ==
    /\ IdleScan
    /\ \/ call = [ fn |-> "evaluate_response", args |-> Scenario3, ret |-> None ]
       \/ \E k \in AnswerKeys, m \in MARKING_SCHEMES :
            \E d \in Detections(k) :
              call = [ fn |-> "evaluate_response", args |-> EvaluateArgs(d, k, m),
                       ret |-> None ]

CallEvaluateResponse ==
    /\ call.fn = "evaluate_response"
    /\ call.ret = None
    /\ call' = [ call EXCEPT !.ret =
                   Some(evaluate_response(call.args.omr_response, call.args.answer_key,
                                          call.args.marking_scheme, (q1 :> << 50, 230 >>))) ]
    /\ UNCHANGED ScanVars

NextEvaluate == CallEvaluateResponse

SpecEvaluate == InitEvaluate /\ [][NextEvaluate]_vars

\* --- step 2 of process_omr_image on bounded template configurations

\* the fieldType of a block configuration: absent, in the registry, not in the registry
BLOCK_FIELD_TYPES == {"none", "QTYPE_MCQ4", "QTYPE_FOO"}

\* the block configuration for question q1 with choices A, B, without the keys `missing`
PartialBlock(field_type, missing) ==
    LET full == IF field_type = "none" THEN Block(<< q1 >>, AB)
                ELSE Overlay(Block(<< q1 >>, AB), [ fieldType |-> field_type ])
    IN  [ k \in (DOMAIN full) \ missing |-> full[k] ]

PartialBlocks ==
    { PartialBlock(t, m) : t \in BLOCK_FIELD_TYPES, m \in SUBSET Range(REQUIRED_KEYS) }

\* one block of six questions of six choices on the grid given
GridConfig(origin, bubbles_gap, labels_gap, direction) ==
    [ fieldBlocks |->
        << Entry("B1", [ fieldLabels |-> [ j \in 1..6 |-> QLabel(j) ],
                         bubbleValues |-> [ k \in 1..6 |-> str(k) ],
                         origin |-> origin,
                         bubblesGap |-> bubbles_gap,
                         labelsGap |-> labels_gap,
                         direction |-> direction ]) >> ]

\* the template_config argument: None, {}, the scan configurations, every
\* configuration of one or two partial blocks, and grids with gaps of 0.5, 1.3, 2.5,
\* 57, 75.3 and 75.6 pixels
InitParse ==
    /\ IdleScan
    /\ \E config_opt \in {None, Some(<< >>)}
                         \cup { Some(c) : c \in TEMPLATE_CONFIGS }
                         \cup { Some(GridConfig(o, bg, lg, d)) :
                                 o \in {<< 1, 90 >>, << 90, 680 >>},
                                 bg \in {5, 13, 25, 570}, lg \in {5, 13, 753, 756},
                                 d \in {"horizontal", "vertical"} }
                         \cup { Some([ fieldBlocks |-> << Entry("B1", b) >> ]) :
                                 b \in PartialBlocks }
                         \cup { Some([ fieldBlocks |-> << Entry("B1", b), Entry("B2", c) >> ]) :
                                 b \in PartialBlocks, c \in PartialBlocks } :
         call = [ fn |-> "ParsedTemplate", args |-> [ template_config |-> config_opt ],
                  ret |-> None ]

CallParsedTemplate ==
    /\ call.fn = "ParsedTemplate"
    /\ call.ret = None
    /\ call' = [ call EXCEPT !.ret =
                   Some(ParsedTemplate(select_config(call.args.template_config))) ]
    /\ UNCHANGED ScanVars

NextParse == CallParsedTemplate

SpecParse == InitParse /\ [][NextParse]_vars

\* --- select_marked_indices and the fill-ratio override on bounded strips

\* most bubbles in a strip passed to select_marked_indices or to the override
MaxChoices == 3
\* means 6, 7 and 8 apart (MULTI_MARK_NEAR_GAP, between, SINGLE_MARK_GAP) and blank paper
SELECT_MEANS == {50, 56, 57, 58, 230}
\* thresholds (half grey levels): at a mean, between the means, above all of them
SELECT_THRS == {100, 113, 115, 200, 480}
\* fill ratios (thousandths) at and next to 0.06 and 0.07, 14 and 15 apart
OVERRIDE_FILLS == {0, 45, 55, 59, 60, 69, 70, 85}
\* most bubbles in a strip passed to get_local_threshold
MaxMeans == 4
\* means 24, 25 and 26 apart (MIN_JUMP), 49 and 50 apart (MIN_JUMP + CONFIDENT_SURPLUS,
\* and 29 / 30 with 70: MIN_GAP), and blank paper
LOCAL_MEANS == {50, 70, 75, 76, 99, 100, 230}

InitMarks ==
    /\ IdleScan
    /\ \/ \E n \in 1..MaxChoices, threshold \in SELECT_THRS :
            \E q_vals \in [1..n -> SELECT_MEANS] :
              call = [ fn |-> "select_marked_indices",
                       args |-> [ q_vals |-> q_vals, threshold |-> threshold ],
                       ret |-> None ]
       \/ \E n \in 0..MaxChoices :
            \E q_fill_vals \in [1..n -> OVERRIDE_FILLS], marked_indices \in SUBSET (1..n) :
              call = [ fn |-> "fill_override",
                       args |-> [ marked_indices |-> marked_indices,
                                  q_fill_vals |-> q_fill_vals ],
                       ret |-> None ]
       \/ \E n \in 1..MaxMeans, global_thr \in SELECT_THRS :
            \E q_vals \in [1..n -> LOCAL_MEANS] :
              call = [ fn |-> "get_local_threshold",
                       args |-> [ q_vals |-> q_vals, global_thr |-> global_thr ],
                       ret |-> None ]
       \/ \E x \in -5..6, y \in -4..5, box \in {<< 2, 2 >>, << 3, 2 >>} :
            \E next \in {<< 1, 1 >>, << 4, 4 >>, << 6, 0 >>} :
              \E readings \in [1..2 -> [ mean : {50, 230}, fill : FILLS ]] :
                call = [ fn |-> "extract_strip",
                         args |-> [ points |-> << << x, y >>, next >>,
                                    box |-> box,
                                    page |-> << 6, 5 >>,
                                    readings |-> readings ],
                         ret |-> None ]

CallSelectMarkedIndices ==
    /\ call.fn = "select_marked_indices"
    /\ call.ret = None
    /\ call' = [ call EXCEPT !.ret =
                   Some(select_marked_indices(call.args.q_vals, call.args.threshold)) ]
    /\ UNCHANGED ScanVars

CallFillOverride ==
    /\ call.fn = "fill_override"
    /\ call.ret = None
    /\ call' = [ call EXCEPT !.ret =
                   Some(fill_override(call.args.marked_indices, call.args.q_fill_vals)) ]
    /\ UNCHANGED ScanVars

CallGetLocalThreshold ==
    /\ call.fn = "get_local_threshold"
    /\ call.ret = None
    /\ call' = [ call EXCEPT !.ret =
                   Some(get_local_threshold(call.args.q_vals, call.args.global_thr, FALSE)) ]
    /\ UNCHANGED ScanVars

CallExtractStrip ==
    /\ call.fn = "extract_strip"
    /\ call.ret = None
    /\ call' = [ call EXCEPT !.ret =
                   Some(extract_strip(call.args.points, call.args.box, call.args.page,
                                      call.args.readings, 1,
                                      [ ok |-> TRUE, q_strip_vals |-> << >>,
                                        q_fill_vals |-> << >> ])) ]
    /\ UNCHANGED ScanVars

NextMarks ==
    \/ CallSelectMarkedIndices
    \/ CallFillOverride
    \/ CallGetLocalThreshold
    \/ CallExtractStrip

SpecMarks == InitMarks /\ [][NextMarks]_vars

\* --- preprocess_omr_image on bounded images

\* The correlation of the marker with the image over the scales 35..100: `peak` at
\* the scale `at`, `base` at every other scale; the marker fits the image up to the
\* scale `largest`.
MarkerResponse(at, peak, base, largest) ==
    [ response |-> [ r0 \in 35..100 |-> IF r0 = at THEN peak ELSE base ],
      fits |-> [ r0 \in 35..100 |-> r0 <= largest ] ]

InitPreprocess ==
    /\ IdleScan
    /\ \/ \E contour \in CONTOUR_READINGS, clean \in MATCH_READINGS, eroded \in MATCH_READINGS :
            \E page \in PAGE_READINGS, marker_file \in MARKER_FILES :
              call = [ fn |-> "preprocess_omr_image",
                       args |-> [ img |-> PageImage(contour, clean, eroded, page),
                                  marker_file |-> marker_file ],
                       ret |-> None ]
       \* the centres _detect_marker_centres_by_square_contours finds in the quadrants
       \* TL, TR, BL, BR of an image 4 wide and 6 high (cut at w // 2 and h // 3)
       \/ \E tl \in (0..1) \X (0..1), tr \in (2..3) \X (0..1) :
            \E bl \in (0..1) \X (2..5), br \in (2..3) \X (2..5) :
              call = [ fn |-> "order_points",
                       args |-> [ pts |-> << tl, tr, bl, br >> ],
                       ret |-> None ]
       \/ \E at \in {100, 94, 70, 46, 40, 37, 35}, peak \in {0, 29, 80}, base \in {-10, 0, 20} :
            \E largest \in {100, 93, 39}, scale_steps \in {5, 10, 13} :
              call = [ fn |-> "get_best_marker_scale",
                       args |-> [ marker |-> MarkerResponse(at, peak, base, largest),
                                  scale_range |-> << 35, 100 >>,
                                  scale_steps |-> scale_steps ],
                       ret |-> None ]

CallPreprocess ==
    /\ call.fn = "preprocess_omr_image"
    /\ call.ret = None
    /\ call' = [ call EXCEPT !.ret =
                   Some(preprocess_omr_image(call.args.img, call.args.marker_file)) ]
    /\ UNCHANGED ScanVars

CallGetBestMarkerScale ==
    /\ call.fn = "get_best_marker_scale"
    /\ call.ret = None
    /\ call' = [ call EXCEPT !.ret =
                   Some(get_best_marker_scale(call.args.marker.response, call.args.marker.fits,
                                              call.args.scale_range, call.args.scale_steps)) ]
    /\ UNCHANGED ScanVars

CallOrderPoints ==
    /\ call.fn = "order_points"
    /\ call.ret = None
    /\ call' = [ call EXCEPT !.ret = Some(order_points(call.args.pts)) ]
    /\ UNCHANGED ScanVars

NextPreprocess ==
    \/ CallPreprocess
    \/ CallGetBestMarkerScale
    \/ CallOrderPoints

SpecPreprocess == InitPreprocess /\ [][NextPreprocess]_vars

\* ----------------------------------------- api/*.py and supabase_client.py

\* One resource of the REST API (call.table: "templates", "answer_keys", "classes"
\* or "scan_results") with its in-memory fallback store call.local (_local_templates,
\* _local_answer_keys, _local_classes, _local_results: the values of the dict, each
\* holding its id) and its database table call.db. A row is [id, user_id, class_id];
\* lists are answered as the set of their rows. `up` tells whether the Supabase client
\* exists (SUPABASE_URL and the service key are set: call.configured) and the request
\* to it succeeds; it is FALSE when a helper returns from `if not client` or `except`.

\* most records created in one run
MaxRecords == 2

\* db_insert: [ok, db]; ok = the inserted row came back
db_insert(db, data, up) ==
    IF up THEN [ ok |-> TRUE, db |-> db \cup {data} ]
    ELSE [ ok |-> FALSE, db |-> db ]

\* db_select with the filters given as a function from column to value (None: << >>)
db_select(db, filters, up) ==
    IF up THEN { r \in db : \A k \in DOMAIN filters : r[k] = filters[k] }
    ELSE {}

\* db_delete: [ok, db]; delete().eq("id", id).execute() succeeds whether or not a row
\* has that id
db_delete(db, id, up) ==
    IF up THEN [ ok |-> TRUE, db |-> { r \in db : r.id # id } ]
    ELSE [ ok |-> FALSE, db |-> db ]

InitApi ==
    /\ IdleScan
    /\ \E table \in {"templates", "answer_keys", "classes", "scan_results"} :
         \E configured \in BOOLEAN :
           call = [ fn |-> "api",
                    table |-> table,
                    configured |-> configured,
                    \* _init_default_template() at import
                    local |-> IF table = "templates"
                              THEN {[ id |-> "default", user_id |-> None, class_id |-> None ]}
                              ELSE {},
                    db |-> {},
                    next_id |-> 1,
                    last |-> [ kind |-> "none" ] ]

\* create_template, create_answer_key, create_class and save_result (from a scan): the
\* row goes to the database, or to the in-memory store when db_insert returns no row.
\* get_optional_user gives a user only through the Supabase client.
ApiCreate ==
    /\ call.fn = "api"
    /\ call.next_id <= MaxRecords
    /\ \E user \in IF call.configured THEN {None, Some("u1"), Some("u2")} ELSE {None} :
         \E class_id \in IF call.table \in {"templates", "classes"} THEN {None}
                         ELSE {None, Some("c1")} :
           \E up \in IF call.configured THEN BOOLEAN ELSE {FALSE} :
             LET data == [ id |-> ToString(call.next_id), user_id |-> user,
                           class_id |-> class_id ]
                 row == db_insert(call.db, data, up)
             IN  call' = [ call EXCEPT
                             !.db = row.db,
                             !.local = IF row.ok THEN @ ELSE @ \cup {data},
                             !.next_id = @ + 1,
                             !.last = [ kind |-> "create", status |-> 200,
                                        body |-> {data} ] ]
    /\ UNCHANGED ScanVars

\* list_templates, list_answer_keys, list_classes and list_results: the rows db_select
\* returns, or, when it returns none, the in-memory store
ApiList ==
    /\ call.fn = "api"
    /\ \E user \in IF call.configured THEN {None, Some("u1"), Some("u2")} ELSE {None} :
         \E class_id \in IF call.table \in {"templates", "classes"} THEN {None}
                         ELSE {None, Some("c1")} :
           \E up \in IF call.configured THEN BOOLEAN ELSE {FALSE} :
             LET by_class == IF class_id # None THEN [ c \in {"class_id"} |-> class_id ]
                             ELSE << >>
                 by_user == IF user # None THEN [ c \in {"user_id"} |-> user ] ELSE << >>
                 filters == IF call.table = "templates" THEN << >>
                            ELSE by_class @@ by_user
                 rows == db_select(call.db, filters, up)
                 local == CASE call.table = "templates" -> call.local
                            [] call.table = "classes" ->
                                 IF user # None
                                 THEN { c \in call.local : c.user_id = user }
                                 ELSE call.local
                            [] OTHER ->
                                 IF class_id # None
                                 THEN { r \in call.local : r.class_id = class_id }
                                 ELSE call.local
                 body == IF rows # {}
                         THEN IF call.table = "templates"
                              THEN rows \cup { t \in call.local : t.id = "default" }
                              ELSE rows
                         ELSE local
             IN  call' = [ call EXCEPT
                             !.last = [ kind |-> "list", status |-> 200, body |-> body,
                                        user |-> user, class_id |-> class_id ] ]
    /\ UNCHANGED ScanVars

\* delete_template, delete_answer_key, delete_class and delete_result
ApiDelete ==
    /\ call.fn = "api"
    /\ \E id \in {"default"} \cup { ToString(n) : n \in 1..MaxRecords } :
         \E up \in IF call.configured THEN BOOLEAN ELSE {FALSE} :
           LET deleted == db_delete(call.db, id, up)
               Answer(status) == [ kind |-> "delete", status |-> status, id |-> id ]
           IN  IF call.table = "templates" /\ id = "default"
               THEN call' = [ call EXCEPT !.last = Answer(400) ]
               ELSE IF \E r \in call.local : r.id = id
               THEN call' = [ call EXCEPT !.local = { r \in @ : r.id # id },
                                          !.last = Answer(200) ]
               ELSE IF deleted.ok
               THEN call' = [ call EXCEPT !.db = deleted.db, !.last = Answer(200) ]
               ELSE call' = [ call EXCEPT !.last = Answer(404) ]
    /\ UNCHANGED ScanVars

NextApi ==
    \/ ApiCreate
    \/ ApiList
    \/ ApiDelete

SpecApi == InitApi /\ [][NextApi]_vars

\* ===================================================================== claims

Returned == pc = "done"

\* the strips of the grid whose bubbles carry label L
StripsLabelled(tmpl, L) ==
    { s \in DOMAIN StripsOf(tmpl) :
        /\ StripsOf(tmpl)[s].bubbles # << >>
        /\ StripsOf(tmpl)[s].bubbles[1].field_label = L }

\* the field values of a strip in choice order
PaletteOf(strip) == [ k \in DOMAIN strip.bubbles |-> strip.bubbles[k].field_value ]

\* every concatenation of one or more distinct choices of the palette in choice order
Selections(palette) ==
    { Flatten([ k \in DOMAIN Filter(Indices(Len(palette)), S) |->
                  palette[Filter(Indices(Len(palette)), S)[k]] ]) :
      S \in (SUBSET (1..Len(palette))) \ { {} } }

WellFormedAnswer(v, strip) == v = strip.empty_val \/ v \in Selections(PaletteOf(strip))

\* C1: for every scan that returns, multi_marked_count + unmarked_count is at most the
\* number of output columns.
C1_CountsWithinColumns ==
    Returned =>
        The(result).multi_marked_count + The(result).unmarked_count
            <= Len(The(template).output_columns)

\* a block with exactly one question that has exactly one choice
OneBubbleBlocks(tmpl) ==
    { b \in DOMAIN tmpl.field_blocks :
        /\ Len(tmpl.field_blocks[b].traverse_bubbles) = 1
        /\ Len(tmpl.field_blocks[b].traverse_bubbles[1]) = 1 }

\* C2: on a template with a one-question, one-choice block detection never fails, and
\* once it has run the question holds either that choice or the block's empty_val.
C2_OneBubbleGridDetects ==
    (template # None /\ OneBubbleBlocks(The(template)) # {}) =>
        /\ pc # "raised"
        /\ detection # None =>
             \A b \in OneBubbleBlocks(The(template)) :
               LET block == The(template).field_blocks[b]
                   bubble == block.traverse_bubbles[1][1]
               IN  /\ bubble.field_label \in DOMAIN The(detection).omr_response
                   /\ The(detection).omr_response[bubble.field_label]
                        \in { bubble.field_value, block.empty_val }

\* C3: every returned scan has exactly one detected answer per label of
\* output_columns, so as many answers as output columns.
C3_OneAnswerPerColumn ==
    Returned =>
        /\ Cardinality(DOMAIN The(result).detected_answers)
             = Len(The(template).output_columns)
        /\ DOMAIN The(result).detected_answers = Range(The(template).output_columns)

\* C4: for every label L of output_columns, also one that occurs in more
\* than one strip, detected_answers[L] is the empty_val of L's block, one of its
\* bubble values, or distinct bubble values concatenated in choice order.
C4_AnswersWellFormedAnyLabel ==
    Returned =>
        \A L \in Range(The(template).output_columns) :
            /\ L \in DOMAIN The(result).detected_answers
            /\ \E s \in StripsLabelled(The(template), L) :
                 WellFormedAnswer(The(result).detected_answers[L],
                                  StripsOf(The(template))[s])

\* The form of C4 for the labels of output_columns that label exactly one strip:
\* detected_answers[L] is the empty_val of L's block, one of its bubble values, or
\* distinct bubble values concatenated in choice order.
C4_AnswersWellFormed ==
    Returned =>
        \A L \in Range(The(template).output_columns) :
            Cardinality(StripsLabelled(The(template), L)) = 1 =>
                /\ L \in DOMAIN The(result).detected_answers
                /\ \A s \in StripsLabelled(The(template), L) :
                     WellFormedAnswer(The(result).detected_answers[L],
                                      StripsOf(The(template))[s])

\* a returned scan in which a label of exactly one strip holds two or more choices
C4_Witness ==
    /\ Returned
    /\ \E L \in Range(The(template).output_columns) :
         /\ Cardinality(StripsLabelled(The(template), L)) = 1
         /\ L \in DOMAIN The(result).detected_answers
         /\ Len(The(result).detected_answers[L]) >= 2

\* --- template configurations the specification calls invalid

\* the block configurations of a template configuration, in insertion order
BlockConfigs(config) == Get(config, "fieldBlocks", << >>)

NamesUnknownFieldType(config) ==
    \E b \in DOMAIN BlockConfigs(config) :
        /\ "fieldType" \in DOMAIN BlockConfigs(config)[b].value
        /\ BlockConfigs(config)[b].value.fieldType \notin DOMAIN FIELD_TYPES

HasEmptyFieldBlocks(config) == BlockConfigs(config) = << >>

\* fieldLabels x bubbleValues is empty in every block (the registry entry of a known
\* fieldType supplying bubbleValues)
ProducesZeroBubbles(config) ==
    \A b \in DOMAIN BlockConfigs(config) :
        LET block == BlockConfigs(config)[b].value
            typed == IF "fieldType" \in DOMAIN block /\ block.fieldType \in DOMAIN FIELD_TYPES
                     THEN Overlay(block, FIELD_TYPES[block.fieldType])
                     ELSE block
        IN  \/ Get(typed, "fieldLabels", << >>) = << >>
            \/ Get(typed, "bubbleValues", << >>) = << >>

\* C11: a scan whose template configuration names an unknown fieldType, has empty
\* fieldBlocks or produces zero bubbles ends with an error and never returns a
\* result record.
C11_InvalidTemplateRejected ==
    LET config == The(template_config)
    IN  (\/ NamesUnknownFieldType(config)
         \/ HasEmptyFieldBlocks(config)
         \/ ProducesZeroBubbles(config))
        => /\ pc # "done"
           /\ result = None

\* --- the pipeline of process_omr_image (Spec)

\* the step that follows each step of a scan
PIPELINE ==
    << "decode", "parse", "preprocess", "resize", "detect", "evaluate", "encode", "done" >>

StepNo(p) == CHOOSE i \in DOMAIN PIPELINE : PIPELINE[i] = p

\* what each position of a scan that has not failed has produced so far
ProducedAt(p) ==
    /\ (template # None) = (StepNo(p) > StepNo("parse"))
    /\ (detection # None) = (StepNo(p) > StepNo("detect"))
    /\ (evaluation # None) = (StepNo(p) > StepNo("evaluate"))
    /\ (result # None) = (StepNo(p) > StepNo("encode"))

C14_MarkerFailureNeverAborts == [][pc = "preprocess" => pc' = "resize"]_vars

\* --- preprocess_omr_image (SpecPreprocess)

PreprocessDone == call.fn = "preprocess_omr_image" /\ call.ret # None

\* whether pass k, run on its own on the image with a usable marker, finds the markers
PassFinds(image, k) ==
    IF k = 1 THEN crop_on_markers_contour(image.contour).warped # None
    ELSE IF k = 2 THEN match_markers_in_quadrants(image.clean, 2).warped # None
    ELSE match_markers_in_quadrants(image.eroded, 3).warped # None

C16_ConfigLeftUnchanged == [][template_config' = template_config]_vars

\* the width and height (percent of the image's) of the quadrilateral pass k detects
QuadOfPass(image, k) ==
    IF k = 1 THEN << image.contour.w_pct, image.contour.h_pct >>
    ELSE IF k = 2 THEN << image.clean.w_pct, image.clean.h_pct >>
    ELSE << image.eroded.w_pct, image.eroded.h_pct >>

\* C22: whichever pass supplies the warp, the quadrilateral it detected is at least
\* 35% of the image wide and 35% of the image high: a smaller one is rejected in
\* passes 1, 2 and 3.
C22_SmallQuadRejected ==
    (PreprocessDone /\ The(call.ret).ok /\ The(call.ret).img.kind = "marker warp") =>
        /\ QuadOfPass(call.args.img, The(call.ret).img.pass)[1] >= 35
        /\ QuadOfPass(call.args.img, The(call.ret).img.pass)[2] >= 35

SweepDone == call.fn = "get_best_marker_scale" /\ call.ret # None

\* C23: with the default range (35, 100) and scale_steps = 10, on a marker that fits
\* the image at every scale, the sweep evaluates 10 scales, the first 100% and the
\* last 35%, and returns a scale whose response is the largest of the responses over
\* the scales evaluated (when one is positive).
C23_TenScalesDownTo35 ==
    (/\ SweepDone
     /\ call.args.scale_steps = 10
     /\ \A r0 \in 35..100 : call.args.marker.fits[r0]) =>
        LET tried == The(call.ret).tried
            response == call.args.marker.response
        IN  /\ Len(tried) = 10
            /\ tried[1] = 100
            /\ tried[Len(tried)] = 35
            /\ (\E i \in DOMAIN tried : response[tried[i]] > 0) =>
                 /\ The(call.ret).best_scale # None
                 /\ \A i \in DOMAIN tried :
                      response[tried[i]] <= response[The(The(call.ret).best_scale)]

\* C27: given the centres found in the quadrants TL, TR, BL, BR, order_points returns
\* them in the order top-left, top-right, bottom-right, bottom-left, each quadrant's
\* centre at its own corner (so each input point exactly once).
C27_EachCentreAtItsCorner ==
    (call.fn = "order_points" /\ call.ret # None) =>
        The(call.ret) = << call.args.pts[1], call.args.pts[2],
                           call.args.pts[4], call.args.pts[3] >>

\* --- ParsedTemplate (SpecParse)

ParseDone == call.fn = "ParsedTemplate" /\ call.ret # None

\* the required keys a block configuration lacks once the registry entry of a known
\* fieldType is laid over it
MissingKeys(block_config) ==
    LET typed == IF "fieldType" \in DOMAIN block_config
                    /\ block_config.fieldType \in DOMAIN FIELD_TYPES
                 THEN Overlay(block_config, FIELD_TYPES[block_config.fieldType])
                 ELSE block_config
    IN  { k \in Range(REQUIRED_KEYS) : k \notin DOMAIN typed }

\* C12: parsing a configuration with a block that lacks a required key fails with a
\* configuration-invalid error that names a block lacking a key and a key it lacks,
\* and produces no ParsedTemplate.
C12_MissingKeyNamesBlockAndKey ==
    ParseDone =>
        LET blocks == BlockConfigs(select_config(call.args.template_config))
            ret == The(call.ret)
        IN  (\E b \in DOMAIN blocks : MissingKeys(blocks[b].value) # {}) =>
                /\ ~ret.ok
                /\ ret.error.type = "InvalidTemplate"
                /\ "block" \in DOMAIN ret.error
                /\ \E b \in DOMAIN blocks :
                     /\ ret.error.block = blocks[b].key
                     /\ ret.error.key \in MissingKeys(blocks[b].value)

\* the x of the four block origins of the default template
DEFAULT_ORIGINS_X == << 90, 530, 970, 1410 >>

\* C17: with no template_config (None or an empty dict) the configuration parsed is
\* the default template: four blocks of 25 strips at (90,680), (530,680), (970,680),
\* (1410,680), 100 strips labelled q1..q100 in output order, every strip with the
\* five bubbles A..E of the registry entry laid out horizontally: x advances by 57
\* per choice, y by 75.6 per question, rounded.
C17_DefaultTemplateGrid ==
    (ParseDone /\ ~Truthy(call.args.template_config)) =>
        LET ret == The(call.ret)
            blocks == ret.template.field_blocks
        IN  /\ ret.ok
            /\ Len(blocks) = 4
            /\ Len(StripsOf(ret.template)) = 100
            /\ ret.template.output_columns = [ i \in 1..100 |-> QLabel(i) ]
            /\ \A i \in 1..100 :
                 StripsOf(ret.template)[i].bubbles[1].field_label = QLabel(i)
            /\ \A b \in 1..4 :
                 /\ blocks[b].origin = << DEFAULT_ORIGINS_X[b], 680 >>
                 /\ Len(blocks[b].traverse_bubbles) = 25
                 /\ \A j \in 1..25 :
                      /\ Len(blocks[b].traverse_bubbles[j]) = 5
                      /\ \A k \in 1..5 :
                           blocks[b].traverse_bubbles[j][k]
                             = Bubble(DEFAULT_ORIGINS_X[b] + 57 * (k - 1),
                                      RoundHalfEven(6800 + 756 * (j - 1), 10),
                                      QLabel(25 * (b - 1) + j),
                                      FIELD_TYPES.QTYPE_MCQ5.bubbleValues[k])

\* the default template has been parsed for a scan without template_config
C17_Witness ==
    /\ ParseDone
    /\ call.args.template_config = None
    /\ The(call.ret).ok
    /\ Len(The(call.ret).template.output_columns) = 100

\* --- FieldBlock._generate_bubble_grid (SpecParse)

\* the block configurations of the configuration parsed, when every block carries its
\* own grid keys and no fieldType
PlainBlocks ==
    LET config == select_config(call.args.template_config)
    IN  IF "fieldBlocks" \in DOMAIN config THEN config.fieldBlocks ELSE << >>

\* the configuration parsed is a grid of one block that gives all its keys itself
GridParsed ==
    /\ ParseDone
    /\ The(call.ret).ok
    /\ Len(PlainBlocks) = 1
    /\ DOMAIN PlainBlocks[1].value
         = {"fieldLabels", "bubbleValues", "origin", "bubblesGap", "labelsGap", "direction"}

\* bubble k of question j of block b carries the j-th label and the k-th value, and its
\* coordinates on the two axes are round(origin + (k-1)*bubblesGap) on the choice axis
\* and round(origin + (j-1)*labelsGap) on the question axis, in exact arithmetic
AtClosedForm(cfg, bubble, j, k) ==
    LET h == IF cfg.direction = "vertical" THEN 2 ELSE 1
        v == IF cfg.direction = "vertical" THEN 1 ELSE 2
        at == << bubble.x, bubble.y >>
    IN  /\ at[h] = RoundHalfEven(10 * cfg.origin[h] + (k - 1) * cfg.bubblesGap, 10)
        /\ at[v] = RoundHalfEven(10 * cfg.origin[v] + (j - 1) * cfg.labelsGap, 10)

GridShape(cfg, grid) ==
    /\ Len(grid) = Len(cfg.fieldLabels)
    /\ \A j \in DOMAIN grid :
         /\ Len(grid[j]) = Len(cfg.bubbleValues)
         /\ \A k \in DOMAIN grid[j] :
              /\ grid[j][k].field_label = cfg.fieldLabels[j]
              /\ grid[j][k].field_value = cfg.bubbleValues[k]

C29_DeleteMissingIs404 ==
    [][ (/\ call.fn = "api"
         /\ call'.last.kind = "delete"
         /\ ~ \E r \in call.local \cup call.db : r.id = call'.last.id)
        => (/\ call'.last.status = 404
            /\ call'.local = call.local
            /\ call'.db = call.db) ]_vars

\* C30: a list of answer keys or scan results answered to an authenticated user holds
\* only records whose user_id is that user's id.
C30_ListsOnlyOwnRecords ==
    (/\ call.fn = "api"
     /\ call.table \in {"answer_keys", "scan_results"}
     /\ call.last.kind = "list"
     /\ call.last.user # None)
    => \A r \in call.last.body : r.user_id = call.last.user

\* --- get_global_threshold (SpecThreshold)

ThresholdDone == call.fn = "get_global_threshold" /\ call.ret # None

\* the gap between q[k] and q[k + 1] is the only one >= MIN_JUMP
OneLargeGapAt(q, k) ==
    /\ k \in 1..(Len(q) - 1)
    /\ q[k + 1] - q[k] >= MIN_JUMP
    /\ \A j \in 1..(Len(q) - 1) : j # k => q[j + 1] - q[j] < MIN_JUMP

\* the gap between q[k] and q[k + 1] exceeds MIN_JUMP and is the only non-zero gap
OnlyGapAt(q, k) ==
    /\ k \in 1..(Len(q) - 1)
    /\ q[k + 1] - q[k] > MIN_JUMP
    /\ \A j \in 1..(Len(q) - 1) : j # k => q[j + 1] = q[j]

\* C5 as claimed: on a sorted list with exactly one gap >= MIN_JUMP, at index k,
\* get_global_threshold returns the midpoint of that gap (looseness 1 and 4).
C5_MidpointOfTheLargeGap ==
    ThresholdDone =>
        \A k \in 1..MaxLen :
            OneLargeGapAt(call.args.q_vals_orig, k) =>
                The(call.ret).global_thr
                    = call.args.q_vals_orig[k] + call.args.q_vals_orig[k + 1]

\* C5 amended: on a sorted list of at least 2 * ls + 1 values, ls = (looseness + 1) / 2,
\* whose only non-zero gap exceeds MIN_JUMP, get_global_threshold returns the
\* midpoint of that gap (looseness 1 and 4).
C5_MidpointOfTheOnlyGap ==
    ThresholdDone =>
        \A k \in 1..MaxLen :
            ( /\ OnlyGapAt(call.args.q_vals_orig, k)
              /\ Len(call.args.q_vals_orig) >= 2 * ((call.args.looseness + 1) \div 2) + 1 ) =>
                The(call.ret).global_thr
                    = call.args.q_vals_orig[k] + call.args.q_vals_orig[k + 1]

\* get_global_threshold has returned for looseness 4 on a two-level list
C5_Witness ==
    /\ ThresholdDone
    /\ call.args.looseness = 4
    /\ Len(call.args.q_vals_orig) >= 5
    /\ \E k \in 1..MaxLen : OnlyGapAt(call.args.q_vals_orig, k)
    /\ The(call.ret).global_thr # 2 * GLOBAL_PAGE_THRESHOLD_WHITE

\* --- one strip of detect_bubbles (SpecStrip)

StripDone == call.fn = "detect_strip" /\ call.ret # None

FiveEqualMeans(q_vals) == Len(q_vals) = 5 /\ \A i, j \in 1..5 : q_vals[i] = q_vals[j]

\* the bubbles whose fill ratio is at least 0.06 and leads every other by 0.015
ClearFillLead(q_fill_vals) ==
    { i \in DOMAIN q_fill_vals :
        /\ q_fill_vals[i] >= 60
        /\ \A j \in DOMAIN q_fill_vals : j # i => q_fill_vals[i] - q_fill_vals[j] >= 15 }

\* C6 as claimed: a strip of five bubbles with the same mean ends with no bubble marked,
\* is recorded as empty_val and counted in unmarked_count, for every global threshold
\* and every combination of fill ratios.
C6_EqualMeansUnmarked ==
    (StripDone /\ FiveEqualMeans(call.args.q_vals)) =>
        /\ The(call.ret).decision.marked_indices = {}
        /\ The(call.ret).after.omr_response[q1] = call.args.empty_val
        /\ The(call.ret).after.unmarked_count = 1

\* C6 amended: on a strip of five bubbles with the same mean the threshold pass marks no
\* bubble, for every global threshold; the strip is recorded as empty_val and counted
\* in unmarked_count unless one bubble has a fill ratio >= 0.06 that leads the others
\* by >= 0.015, and then exactly that bubble is marked and reported.
C6_EqualMeansUnmarkedUnlessFilled ==
    (StripDone /\ FiveEqualMeans(call.args.q_vals)) =>
        /\ The(call.ret).selected.ok
        /\ The(call.ret).selected.marked = << >>
        /\ IF ClearFillLead(call.args.q_fill_vals) = {}
           THEN /\ The(call.ret).decision.marked_indices = {}
                /\ The(call.ret).after.omr_response[q1] = call.args.empty_val
                /\ The(call.ret).after.unmarked_count = 1
           ELSE /\ The(call.ret).decision.marked_indices = ClearFillLead(call.args.q_fill_vals)
                /\ \E i \in ClearFillLead(call.args.q_fill_vals) :
                     The(call.ret).after.omr_response[q1] = MCQ5_VALUES[i]
                /\ The(call.ret).after.unmarked_count = 0
                /\ The(call.ret).after.multi_marked_count = 0

\* five equal means, a global threshold above them, one filled bubble
C6_Witness ==
    /\ StripDone
    /\ FiveEqualMeans(call.args.q_vals)
    /\ call.args.global_thr > 2 * call.args.q_vals[1]
    /\ ClearFillLead(call.args.q_fill_vals) # {}
    /\ The(call.ret).after.unmarked_count = 0

\* C18: after a strip, unmarked_count has grown by one exactly when the strip ended
\* with no marked bubble and multi_marked_count by one exactly when it ended with
\* more than one, however many; a strip with one marked bubble changes neither
\* count and reports that bubble's value.
C18_CountsPerStrip ==
    (StripDone /\ The(call.ret).decision.ok) =>
        LET marked == The(call.ret).decision.marked_indices
            after == The(call.ret).after
        IN  /\ after.unmarked_count = (IF marked = {} THEN 1 ELSE 0)
            /\ after.multi_marked_count = (IF Cardinality(marked) > 1 THEN 1 ELSE 0)
            /\ Cardinality(marked) = 1 =>
                 \A i \in marked : after.omr_response[q1] = MCQ5_VALUES[i]

\* --- the fill-ratio override and select_marked_indices (SpecMarks)

OverrideDone == call.fn = "fill_override" /\ call.ret # None

\* the largest fill ratio of a strip, and the bubbles that have it
TopFill(f) == SeqMax(f)
TopBubbles(f) == { i \in DOMAIN f : f[i] = TopFill(f) }

\* the second largest fill ratio (the largest again when two bubbles share it), 0 on
\* a strip of one bubble
SecondFill(f) ==
    IF Len(f) < 2 THEN 0
    ELSE LET top == CHOOSE i \in TopBubbles(f) : TRUE
         IN  CHOOSE v \in { f[i] : i \in (DOMAIN f) \ {top} } :
               \A i \in (DOMAIN f) \ {top} : f[i] <= v

\* C19: with top and second the two largest fill ratios of the strip, the override
\* leaves exactly the top-fill bubble marked when the threshold pass marked none and
\* top >= 0.06 and top - second >= 0.015, and when it marked two or more and
\* top >= 0.07 and top - second >= 0.015; in every other case the marked set is the
\* one of the threshold pass.
C19_FillOverride ==
    (OverrideDone /\ call.args.q_fill_vals # << >>) =>
        LET f == call.args.q_fill_vals
            marked == call.args.marked_indices
            lead == TopFill(f) - SecondFill(f) >= 15
        IN  IF marked = {} /\ TopFill(f) >= 60 /\ lead
            THEN The(call.ret) = TopBubbles(f) /\ Cardinality(TopBubbles(f)) = 1
            ELSE IF Cardinality(marked) >= 2 /\ TopFill(f) >= 70 /\ lead
            THEN The(call.ret) = TopBubbles(f) /\ Cardinality(TopBubbles(f)) = 1
            ELSE The(call.ret) = marked

\* two bubbles marked by the threshold pass were replaced by a third, the top fill
C19_Witness ==
    /\ OverrideDone
    /\ Cardinality(call.args.marked_indices) = 2
    /\ Cardinality(The(call.ret)) = 1
    /\ The(call.ret) \cap call.args.marked_indices = {}

SelectDone == call.fn = "select_marked_indices" /\ call.ret # None

\* the bubbles of S that are at least SINGLE_MARK_GAP darker than every other one of S
ClearlyDarkest(q, S) == { i \in S : \A j \in S \ {i} : q[j] - q[i] >= 8 }

\* the bubbles of S within MULTI_MARK_NEAR_GAP of the darkest of S
NearDarkest(q, S) == { i \in S : \A j \in S : q[i] - q[j] <= 6 }

\* C20: select_marked_indices returns a subset of the bubbles strictly below the
\* threshold; when every bubble is below it, only the darkest if it is at least 8
\* darker than the next, else none; when more than one but not all are below it,
\* only the darkest of them if it is at least 8 darker than the second darkest,
\* else those within 6 of the darkest.
C20_SelectMarkedIndices ==
    SelectDone =>
        LET q == call.args.q_vals
            below == { i \in DOMAIN q : 2 * q[i] < call.args.threshold }
            ret == The(call.ret)
        IN  /\ ret.ok
            /\ Range(ret.marked) \subseteq below
            /\ below = DOMAIN q =>
                 Range(ret.marked) = ClearlyDarkest(q, below)
            /\ (Cardinality(below) > 1 /\ below # DOMAIN q) =>
                 Range(ret.marked) = (IF ClearlyDarkest(q, below) # {}
                                      THEN ClearlyDarkest(q, below)
                                      ELSE NearDarkest(q, below))

\* the same for strips of two or more bubbles
C20_StripsOfTwoOrMore ==
    (SelectDone /\ Len(call.args.q_vals) >= 2) => C20_SelectMarkedIndices

ExtractDone == call.fn = "extract_strip" /\ call.ret # None

\* bubble i of the strip passed to phase 1 lies partly or wholly outside the page
\* image, or at a negative coordinate
OutsidePage(i) ==
    LET pt == call.args.points[i]
    IN  \/ pt[1] < 0
        \/ pt[2] < 0
        \/ pt[1] + call.args.box[1] > call.args.page[1]
        \/ pt[2] + call.args.box[2] > call.args.page[2]

\* C24: phase 1 ends without error on every strip, and each bubble that lies partly
\* or wholly outside the page image, or at a negative coordinate, gets the sentinel
\* features mean = 255 and fill ratio = 0.
C24_SentinelOutsidePage ==
    ExtractDone =>
        /\ The(call.ret).ok
        /\ \A i \in DOMAIN call.args.points :
             OutsidePage(i) =>
                /\ The(call.ret).q_strip_vals[i] = 255
                /\ The(call.ret).q_fill_vals[i] = 0

\* --- get_local_threshold (SpecMarks)

\* the jumps q[i+1] - q[i-1] over the sorted means s of a strip, by the position of
\* q[i-1]
Jumps(s) == [ i \in 1..(Len(s) - 2) |-> s[i + 2] - s[i] ]

\* the threshold (half grey levels) the claim gives a strip of three or more means
\* before the clamp: the midpoint of a largest jump, g when that jump is below 50
JumpThresholds(s, g) ==
    IF SeqMax(Jumps(s)) < 50 THEN { g }
    ELSE { 2 * s[i] + Jumps(s)[i] : i \in { j \in DOMAIN Jumps(s) : Jumps(s)[j] = SeqMax(Jumps(s)) } }

LocalDone == call.fn = "get_local_threshold" /\ call.ret # None

EvaluateDone == call.fn = "evaluate_response" /\ call.ret # None

\* the tri-state the claim gives question q with expected answer e under detections D
TriState(D, q, e) ==
    IF q \notin DOMAIN D \/ D[q] = << >> THEN None
    ELSE IF upper(D[q]) = upper(e) THEN Some(TRUE)
    ELSE Some(FALSE)

SchemeOf(scheme_opt) ==
    IF scheme_opt = None THEN MarkingScheme(4, 0, 0) ELSE The(scheme_opt)

\* C7: total = |K|, one row per key with the tri-state of its detection, and
\* score = c * #correct + i * #incorrect + u * #unmarked; scenario 3 gives 0.75, 3 and
\* [true, false, null].
C7_RowsAndScore ==
    EvaluateDone =>
        LET K == call.args.answer_key
            D == call.args.omr_response
            r == The(call.ret)
            w == SchemeOf(call.args.marking_scheme)
            RowsFor(q) == { j \in DOMAIN r.bubble_details : r.bubble_details[j].question = q }
            Count(t) == Cardinality({ i \in DOMAIN K : TriState(D, K[i].key, K[i].value) = t })
        IN  /\ r.total = Len(K)
            /\ Len(r.bubble_details) = Len(K)
            /\ \A i \in DOMAIN K :
                 /\ Cardinality(RowsFor(K[i].key)) = 1
                 /\ \A j \in RowsFor(K[i].key) :
                      /\ r.bubble_details[j].is_correct = TriState(D, K[i].key, K[i].value)
                      /\ r.bubble_details[j].correct = K[i].value
            /\ r.score = w.correct * Count(Some(TRUE)) + w.incorrect * Count(Some(FALSE))
                         + w.unmarked * Count(None)
            /\ call.args = Scenario3 =>
                 /\ r.score = 3
                 /\ r.total = 3
                 /\ [ j \in DOMAIN r.bubble_details |-> r.bubble_details[j].is_correct ]
                      = << Some(TRUE), Some(FALSE), None >>

\* scenario 3 has been evaluated
C7_Witness == EvaluateDone /\ call.args = Scenario3 /\ The(call.ret).score = 3

\* the integer written by the digits that end the question key, 0 when it ends in none
RECURSIVE TrailingDigits(_)
TrailingDigits(question) ==
    IF question = << >> \/ question[Len(question)] \notin DIGITS THEN << >>
    ELSE TrailingDigits(SubSeq(question, 1, Len(question) - 1))
         \o << question[Len(question)] >>

TrailingInteger(question) == int(TrailingDigits(question))

\* the position of question q in the answer key
KeyPosition(K, q) == CHOOSE i \in DOMAIN K : K[i].key = q

\* C8: bubble_details is sorted ascending by the trailing integer of the question key
\* (0 without a number), rows of equal value in the answer key's insertion order.
C8_SortedByTrailingInteger ==
    EvaluateDone =>
        LET K == call.args.answer_key
            rows == The(call.ret).bubble_details
        IN  \A i, j \in DOMAIN rows :
              i < j =>
                \/ TrailingInteger(rows[i].question) < TrailingInteger(rows[j].question)
                \/ /\ TrailingInteger(rows[i].question) = TrailingInteger(rows[j].question)
                   /\ KeyPosition(K, rows[i].question) < KeyPosition(K, rows[j].question)

\* C9: under marking scheme (1, 0, 0) the score is the number of rows with
\* is_correct = true, and 0 <= score <= total (score in quarters of a point).
C9_DefaultSchemeCountsCorrect ==
    (EvaluateDone /\ call.args.marking_scheme \in { None, Some(MarkingScheme(4, 0, 0)) }) =>
        LET r == The(call.ret)
        IN  /\ r.score = 4 * Cardinality({ j \in DOMAIN r.bubble_details :
                                             r.bubble_details[j].is_correct = Some(TRUE) })
            /\ 0 <= r.score
            /\ r.score <= 4 * r.total

\* an evaluation under the default scheme with correct, incorrect and unmarked rows
C9_Witness ==
    /\ EvaluateDone
    /\ call.args.marking_scheme = None
    /\ The(call.ret).score = 4
    /\ { The(call.ret).bubble_details[j].is_correct : j \in DOMAIN The(call.ret).bubble_details }
         = { None, Some(TRUE), Some(FALSE) }

\* --- process_omr_image (Spec)

\* C26: a question the detector reports as unmarked (its answer is the empty_val of
\* its block, written by a strip counted in unmarked_count) is scored as unmarked,
\* is_correct = None, whatever emptyValue the template configures.
C26_UnmarkedNeverScoredWrong ==
    Returned =>
        LET strips == StripsOf(The(template))
            details == The(result).bubble_details
        IN  \A i \in DOMAIN details :
              (/\ The(detection).unmarked_count >= 1
               /\ \E s \in DOMAIN strips :
                    /\ strips[s].bubbles # << >>
                    /\ strips[s].bubbles[1].field_label = details[i].question
                    /\ Get(The(detection).omr_response, details[i].question, << >>)
                         = strips[s].empty_val)
              => details[i].is_correct = None

\* p hundredths of a percent is score / total * 100 to the nearest hundredth
NearestHundredth(p, score, total) ==
    LET diff == 2500 * score - p * total
    IN  2 * (IF diff >= 0 THEN diff ELSE -diff) <= total

\* C10: without an answer key (absent or empty) the returned record has no score, total
\* or percentage and no bubble_details, and still the detected answers and counts; with
\* one it has all three, total = number of keys, percentage = round(score/total*100, 2).
C10_ScoringFields ==
    Returned =>
        LET r == The(result)
        IN  /\ r.detected_answers = The(detection).omr_response
            /\ r.multi_marked_count = The(detection).multi_marked_count
            /\ r.unmarked_count = The(detection).unmarked_count
            /\ IF answer_key = None \/ answer_key = Some(<< >>)
               THEN /\ r.score = None
                    /\ r.total = None
                    /\ r.percentage = None
                    /\ r.bubble_details = << >>
               ELSE /\ r.score # None
                    /\ r.total = Some(Len(The(answer_key)))
                    /\ r.percentage # None
                    /\ NearestHundredth(The(r.percentage), The(r.score), The(r.total))
                    /\ Len(r.bubble_details) = Len(The(answer_key))

\* a scan with an empty answer key has returned its detections
C10_Witness ==
    /\ Returned
    /\ answer_key = Some(<< >>)
    /\ DOMAIN The(result).detected_answers # {}
    /\ The(result).unmarked_count >= 1

====
